---- MODULE Spec2Model ----
(***************************************************************************)
(* State-machine model of the D-Chat client: channel identifiers           *)
(* (gunService.ts), the per-pair key agreement and message codec           *)
(* (cryptoService), the contact registry and the message reconciler of     *)
(* Chat.tsx, and the older ChatWindow.tsx reconciler.                      *)
(*                                                                         *)
(* Strings that the code sorts, splits or filters (usernames, channel ids) *)
(* are sequences of UTF-16 code units, so that sort order, split(':') and  *)
(* the sanitising regular expression are computed, not assumed.            *)
(***************************************************************************)
EXTENDS Integers, Sequences, FiniteSets, TLC

\* ------------------------------------------------------------------------
\* Bounds of the model
\* ------------------------------------------------------------------------
MaxNameLen == 2
MaxKeys == 3
MaxWindowKeys == 2
MaxRenderKeys == 2
MaxSubs == 2
MaxCalls == 3
MaxStoredKeys == 2
MaxAuthCalls == 3
MaxHealKeys == 2
MaxEntries == 2
MaxNonce == 2
MaxOrderKeys == 4
MaxSends == 2
MaxRecords == 15
MaxShowKeys == 2
MaxClock == 5
MaxPartialKeys == 3

\* ------------------------------------------------------------------------
\* Strings as sequences of code units
\* ------------------------------------------------------------------------
Colon == <<58>>
Alice == <<97, 108, 105, 99, 101>>
Bob == <<98, 111, 98>>
Carol == <<99, 97, 114, 111, 108>>
EmptyStr == <<>>

\* code units the identifier functions are exercised on: '-', ':', 'a'
Alphabet == {45, 58, 97}

RECURSIVE StringsUpTo(_)
StringsUpTo(n) ==
    IF n = 0 THEN {<<>>}
    ELSE LET shorter == StringsUpTo(n - 1)
         IN shorter \cup {Append(s, c) : s \in {t \in shorter : Len(t) = n - 1}, c \in Alphabet}

Names == StringsUpTo(MaxNameLen)

\* [a-zA-Z0-9_-]
IsAllowedChar(c) ==
    \/ c \in 97..122
    \/ c \in 65..90
    \/ c \in 48..57
    \/ c = 95
    \/ c = 45

\* /^[a-zA-Z0-9_-]+$/.test(s)
IsValidUsername(s) == Len(s) > 0 /\ \A i \in 1..Len(s) : IsAllowedChar(s[i])

\* JavaScript's default string comparison: code unit by code unit, a proper
\* prefix is smaller
RECURSIVE StrLess(_, _)
StrLess(a, b) ==
    IF Len(b) = 0 THEN FALSE
    ELSE IF Len(a) = 0 THEN TRUE
    ELSE IF a[1] < b[1] THEN TRUE
    ELSE IF a[1] > b[1] THEN FALSE
    ELSE StrLess(Tail(a), Tail(b))

\* [x, y].sort() on two strings (stable: equal strings keep their order)
SortPair(x, y) == IF StrLess(y, x) THEN <<y, x>> ELSE <<x, y>>

\* [x, y].join(':')
JoinColon(p) == p[1] \o Colon \o p[2]

\* s.split(':') : the list of maximal ':'-free pieces
RECURSIVE SplitColon(_)
SplitColon(s) ==
    IF \A i \in 1..Len(s) : s[i] # Colon[1] THEN <<s>>
    ELSE LET i == CHOOSE j \in 1..Len(s) :
                      s[j] = Colon[1] /\ \A h \in 1..(j - 1) : s[h] # Colon[1]
         IN <<SubSeq(s, 1, i - 1)>> \o SplitColon(SubSeq(s, i + 1, Len(s)))

\* the replace with a character class that lost its hyphen
sanitizeForChatId_NoHyphen(username) ==
    SelectSeq(username, LAMBDA c : IsAllowedChar(c) /\ c # 45)

\* username.replace(/[^a-zA-Z0-9_-]/g, '')
sanitizeForChatId(username) == SelectSeq(username, IsAllowedChar)

\* the join without the sort
createChatLinkId_NoSort(currentUser, partnerUsername) ==
    LET safeCurrent == sanitizeForChatId(currentUser)
        safePartner == sanitizeForChatId(partnerUsername)
    IN IF Len(safeCurrent) = 0 \/ Len(safePartner) = 0 THEN EmptyStr
       ELSE JoinColon(<<safeCurrent, safePartner>>)

\* the identifier createChatLink computes; EmptyStr stands for `undefined`
createChatLinkId(currentUser, partnerUsername) ==
    LET safeCurrent == sanitizeForChatId(currentUser)
        safePartner == sanitizeForChatId(partnerUsername)
    IN IF Len(safeCurrent) = 0 \/ Len(safePartner) = 0 THEN EmptyStr
       ELSE JoinColon(SortPair(safeCurrent, safePartner))

\* gunService.createChat of the older service: no sanitising
createChatId(currentUser, partnerUser) == JoinColon(SortPair(currentUser, partnerUser))

\* ------------------------------------------------------------------------
\* Key agreement and message codec (cryptoService)
\* ------------------------------------------------------------------------
\* ECDH is modelled as Diffie-Hellman in the multiplicative group modulo
\* GroupP with generator GroupG; a key pair is (priv, GroupG^priv).
GroupP == 23
GroupG == 5

RECURSIVE ModExp(_, _)
ModExp(b, e) == IF e = 0 THEN 1 ELSE (b * ModExp(b, e - 1)) % GroupP

Users == {Alice, Bob, Carol}

\* the private key each user generated at signup
PrivKey(u) == IF u = Alice THEN 2 ELSE IF u = Bob THEN 3 ELSE 5

\* generateKeys: the public half that belongs to a private key
PubOf(priv) == ModExp(GroupG, priv)

\* "b:b", a name the signup form without validateUsername accepted
OddName == <<98, 58, 98>>
Registered == Users \cup {OddName}

\* the Key Directory: users/<name>/pubKey as published by createUser
Directory(u) == PubOf(PrivKey(u))

\* a derivation that takes the caller's own public key
deriveSharedKey_OwnPublic(myPrivateKey, partnerPublicKey) ==
    ModExp(PubOf(myPrivateKey), myPrivateKey)

\* crypto.subtle.deriveKey({name:'ECDH', public: partnerPublicKey}, myPrivateKey)
deriveSharedKey(myPrivateKey, partnerPublicKey) ==
    ModExp(partnerPublicKey, myPrivateKey)

\* a ciphertext is <<key, plaintext, nonce>>; <<>> is a missing field
NoCt == <<>>
NoIv == 0
NoText == ""
DecryptionFailure == "DecryptionFailure"

\* encryptMessage(sharedKey, plaintext), with the nonce getRandomValues drew
encryptMessage(sharedKey, plaintext, nonce) ==
    [ct |-> <<sharedKey, plaintext, nonce>>, iv |-> nonce]

\* decryptMessage: AES-GCM authentication fails unless key and nonce match
decryptMessage(sharedKey, ct, iv) ==
    IF Len(ct) = 3 /\ ct[1] = sharedKey /\ ct[3] = iv THEN ct[2]
    ELSE DecryptionFailure

\* ------------------------------------------------------------------------
\* Timeline entries
\* ------------------------------------------------------------------------
Texts == {"hi", "yo"}
Evil == "evil"
SentinelChat == "[Decryption Failed]"
SentinelWindow == "[Failed to decrypt]"

\* sender wall clocks are not synchronised: the entry with key k carries
\* timestamp Timestamp(k), so keys 1, 2, 3 carry 300, 100, 200
Timestamp(k) == 100 * (1 + ((k + 1) % 3))

\* an insertion that puts the new entry before the entries of its timestamp
InsertByTime_BeforeTies(sorted, m) ==
    SelectSeq(sorted, LAMBDA x : x.timestamp < m.timestamp)
        \o <<m>> \o SelectSeq(sorted, LAMBDA x : x.timestamp >= m.timestamp)

RECURSIVE InsertByTime(_, _)
InsertByTime(sorted, m) ==
    IF Len(sorted) = 0 THEN <<m>>
    ELSE IF sorted[Len(sorted)].timestamp <= m.timestamp THEN Append(sorted, m)
    ELSE Append(InsertByTime(SubSeq(sorted, 1, Len(sorted) - 1), m), sorted[Len(sorted)])

\* arrival order kept
SortByTime_Unsorted(s) == s

\* Array.prototype.sort((a, b) => a.timestamp - b.timestamp): stable
RECURSIVE SortByTime(_)
SortByTime(s) ==
    IF Len(s) = 0 THEN <<>>
    ELSE InsertByTime(SortByTime(SubSeq(s, 1, Len(s) - 1)), s[Len(s)])

KeysOf(s) == {s[i].key : i \in 1..Len(s)}

\* ------------------------------------------------------------------------
\* State
\* ------------------------------------------------------------------------
VARIABLES
    app,                  \* which client is built: "Chat" (Chat.tsx) or "ChatWindow"
    currentUser,          \* the logged-in identity
    chatNode,             \* replicated store, gun.get('chat'): entry k has replica key k
    userChats,            \* replicated store, users/<name>/chats: per-user channel list
    \* ---- Chat.tsx ----
    mounted,              \* the Chat component is mounted (user logged in)
    contacts,             \* useState<Contact[]>
    currentChat,          \* useState<ChatSession | null>
    messages,             \* useState<ChatMessage[]>: the timeline
    renderedMessageKeys,  \* useRef<Set<string>>
    sharedKeysRef,        \* useRef<{[partner]: CryptoKey}>
    subscribed,           \* channel whose chatNode.map().on(handleMessage) is live
    decryptedText,        \* MessageItem state of every mounted item, by entry key
    needProc,             \* mounted items whose process() effect is still to run
    noKeyFor,             \* items whose last process() failed in getSharedKey
    msgCache,             \* localStorage dchat_messages_<chatId>
    contactsCache,        \* localStorage dchat_chats_<username>
    newChatStatus,        \* status line of the new-chat dialog
    lastChatId,           \* value createChatLink returned to the last successful submit
    \* ---- ChatWindow.tsx ----
    contact,              \* prop contact: the selected contact or null
    sharedKey,            \* useState<CryptoKey | null>
    deriving,             \* partner whose deriveKey() is in flight and still mounted
    cwMessages,           \* useState<Message[]>: the timeline
    cwListening,          \* slot of the live listenForMessages subscription, 0 if none
    messageMap,           \* the closures of the subscriptions, by slot
    inflight,             \* callbacks suspended in `await decryptMessage`
    \* ---- history of the live feed (not program state) ----
    fromCache,            \* keys the open Chat channel loaded from its cache record
    redelivered,          \* was the last delivery a key already held: "none", "live", "cached"
    \* ---- identifier functions under test ----
    idArgs,               \* the two usernames handed to the identifier functions
    idResult,             \* what createChatLink and createChat returned for them
    \* ---- gunService.fetchPartnerPubKey: one call ----
    gun,                  \* the store client: TRUE if getGunInstance() returned one
    pubKeyNode,           \* what users/<partner>/pubKey holds in the replicated store
    rsPhase,              \* "called", "attempt", "backoff", "returned"
    rsI,                  \* the loop variable i
    rsDelayMs,            \* the variable delayMs
    rsResult,             \* the value the call returned
    rsOpen,               \* attempts whose once() callback the store has not fired yet
    rsDone,               \* attempts whose `done` flag is set
    rsLog,                \* history: what each attempt's promise resolved with, in order
    rsLate,               \* history: has a reply arrived after its attempt completed
    rsTimers,             \* history: the timeout each attempt's timer was set with, in ms
    rsWaits,              \* history: the delay of each backoff wait, in ms
    \* ---- ChatPage.tsx, Sidebar.tsx, NewChatModal.tsx ----
    userChatObjs,         \* replicated store: the objects gunService.createChat set
    modalStatus,          \* status line of NewChatModal
    sbContacts,           \* Sidebar: the values of uniqueContacts, in insertion order
    \* ---- Chat.tsx getSharedKey: the calls of one session ----
    keyCalls,             \* the calls made so far, in call order, each with its position
    dirReads,             \* history: number of fetchPartnerPubKey calls
    agreements,           \* history: number of deriveSharedKey calls
    \* ---- browser storage, Auth.tsx and App.tsx, per browser ----
    storageFault,         \* what localStorage.setItem does now: "none", "quota", "error"
    usersNode,            \* replicated store, gun.get('users'): name -> {pubKey, privKey}
    identityCache,        \* localStorage dchat_user_<name>, by <<browser, name>>
    sessionStore,         \* sessionStorage of each browser
    authCalls,            \* the handleSubmit calls made so far, each with its position
    appUser,              \* App state currentUser of each browser, EmptyStr for null
    appKeys,              \* App state userKeys of each browser: the private key, 0 for null
    savingKeys,           \* the private key a pending saveKeys() of handleLogin holds
    authStatus,           \* the status line of the Auth form of each browser
    \* ---- cryptoService: the entries encrypted under one shared key ----
    cdKey,                \* the shared key
    cdEntries,            \* history: what each encrypt call was given, drew and returned
    cdRead,               \* the last decrypt call: its entry, what was changed, its result
    \* ---- Chat.tsx handleSendMessage and handleFileUpload ----
    sends,                \* the calls made so far, each with what its closure holds
    \* ---- userCache.saveMessagesToCache under quota pressure ----
    evStore,              \* localStorage dchat_messages_*: updatedAt of each record, by key
    evCall,               \* history: the last call, what it found, removed and wrote
    \* ---- Chat.tsx: the composer and the error banner ----
    inputMsg,             \* what the input field holds
    errorMessage,         \* the banner's text, NoError when none is shown
    errTimers,            \* the pending setTimeout(() => setErrorMessage(null)): their due times
    clock,                \* the time, in seconds
    errShownAt            \* history: when setErrorMessage was last called with a message

envVars == <<app, currentUser, chatNode, userChats>>
chatVars == <<mounted, contacts, currentChat, messages, renderedMessageKeys, sharedKeysRef,
              subscribed, decryptedText, needProc, noKeyFor, msgCache, contactsCache,
              newChatStatus, lastChatId>>
windowVars == <<contact, sharedKey, deriving, cwMessages, cwListening, messageMap, inflight>>
idVars == <<idArgs, idResult>>
feedVars == <<fromCache, redelivered>>
resolveVars == <<gun, pubKeyNode, rsPhase, rsI, rsDelayMs, rsResult, rsOpen, rsDone, rsLog,
                 rsLate, rsTimers, rsWaits>>
pageVars == <<userChatObjs, modalStatus, sbContacts>>
keyVars == <<keyCalls, dirReads, agreements>>
authVars == <<storageFault, usersNode, identityCache, sessionStore, authCalls, appUser,
              appKeys, savingKeys, authStatus>>
codecVars == <<cdKey, cdEntries, cdRead>>
sendVars == <<sends>>
evictVars == <<evStore, evCall>>
uiVars == <<inputMsg, errorMessage, errTimers, clock, errShownAt>>
svcVars == <<resolveVars, pageVars, keyVars, authVars, codecVars, sendVars, evictVars, uiVars>>
vars == <<envVars, chatVars, windowVars, idVars, feedVars, svcVars>>

NoChat == [partner |-> EmptyStr, id |-> EmptyStr]
NoContact == [username |-> EmptyStr, chatId |-> EmptyStr]
NoKey == 0

\* a JavaScript object used as a map: absent properties read as `dflt`
Get(f, x, dflt) == IF x \in DOMAIN f THEN f[x] ELSE dflt
Put(f, x, v) == [y \in DOMAIN f \cup {x} |-> IF y = x THEN v ELSE f[y]]
EmptyMap == <<>>

\* what fetchPartnerPubKey can return: the published key, or null (0) once
\* every attempt timed out or read nothing
FetchOutcomes(u) == IF u \in Registered THEN {Directory(u), NoKey} ELSE {NoKey}

\* storage.setItem throws: QuotaExceededError ("quota") or another error
SetItemThrows == storageFault # "none"

\* a catch block that lets everything but a quota error out
Swallowed_QuotaOnly(fault) == fault = "quota"

\* the catch blocks of saveMessagesToCache and saveContactsToCache: every
\* path logs and returns
Swallowed(fault) == TRUE

\* the exception a save of messages or contacts lets out to its caller
SaveRaises == SetItemThrows /\ ~Swallowed(storageFault)

\* loadMessagesFromCache / saveMessagesToCache: a write that throws leaves
\* the record as it was (fewer than ten message records, nothing is evicted)
loadMessagesFromCache(cache, chatId) == Get(cache, chatId, <<>>)

\* a save that writes a record only where there is none yet
saveMessagesToCache_OnlyIfAbsent(cache, chatId, msgs) ==
    IF SetItemThrows \/ chatId \in DOMAIN cache THEN cache ELSE Put(cache, chatId, msgs)

saveMessagesToCache(cache, chatId, msgs) ==
    IF SetItemThrows THEN cache ELSE Put(cache, chatId, msgs)

\* the save-messages effect of Chat.tsx, run after a render with (chat, msgs)
SaveMessagesEffect(cache, chat, msgs) ==
    IF chat # NoChat /\ Len(msgs) > 0 THEN saveMessagesToCache(cache, chat.id, msgs)
    ELSE cache

\* gun.get('chat').get(chan).set(payload): the replica assigns the next key
Stored(chan, author, payload) ==
    LET k == Len(chatNode) + 1
    IN [key |-> k, chan |-> chan, author |-> author, sender |-> payload.sender,
        timestamp |-> Timestamp(k), ct |-> payload.ct, iv |-> payload.iv,
        text |-> payload.text]

\* ------------------------------------------------------------------------
\* Chat.tsx: message reconciler
\* ------------------------------------------------------------------------
EntryOf(timeline, k) == timeline[CHOOSE i \in 1..Len(timeline) : timeline[i].key = k]

\* the MessageItem components after a render: React keeps the state of an
\* item whose key is still in the list and mounts the others with null
MountItems(old, timeline) == [k \in KeysOf(timeline) |-> Get(old, k, NoText)]

\* What happens once setCurrentChat(chat) is rendered: the messages effect
\* (clear, load the cache, mark keys, subscribe), then the save effect of the
\* same render, which still sees the messages of the previous render, then
\* the re-render with the loaded messages and its save effect.
OpenChatEffects(chat) ==
    LET cachedMessages == loadMessagesFromCache(msgCache, chat.id)
        afterStaleSave == SaveMessagesEffect(msgCache, chat, messages)
        afterRerender == SaveMessagesEffect(afterStaleSave, chat, cachedMessages)
    IN /\ currentChat' = chat
       /\ messages' = cachedMessages
       /\ renderedMessageKeys' = KeysOf(cachedMessages)
       /\ subscribed' = chat.id
       /\ msgCache' = afterRerender
       /\ decryptedText' = MountItems(decryptedText, cachedMessages)
       /\ needProc' = KeysOf(cachedMessages)
       /\ noKeyFor' = noKeyFor \cap KeysOf(cachedMessages)
       /\ fromCache' = KeysOf(cachedMessages)
       /\ redelivered' = "none"

\* a click on contacts[i] in the sidebar
SelectContact(i) ==
    /\ app = "Chat" /\ mounted
    /\ i \in 1..Len(contacts)
    /\ OpenChatEffects([partner |-> contacts[i].username, id |-> contacts[i].chatId])
    /\ UNCHANGED <<envVars, windowVars, idVars, svcVars, mounted, contacts, sharedKeysRef,
                   contactsCache, newChatStatus, lastChatId>>

\* the setMessages updater of handleMessage
MergedTimeline(prev, fullMsg) ==
    IF fullMsg.key \in KeysOf(prev) THEN prev
    ELSE SortByTime(Append(prev, fullMsg))

\* a handler that merges whatever the feed delivers
Reconciled_NoDedup(prev, seen, fullMsg) == SortByTime(Append(prev, fullMsg))

\* the timeline after handleMessage(msg, key): nothing is queued for a key in
\* renderedMessageKeys
Reconciled(prev, seen, fullMsg) ==
    IF fullMsg.key \in seen THEN prev ELSE MergedTimeline(prev, fullMsg)

\* what the replica can hand to the callback for an entry before the whole
\* entry has arrived: null, or the entry without its sender or its timestamp
NullMsg == [kind |-> "null", val |-> 0]
PartialDeliveries == {"null", "noSender", "noTimestamp"}
PartOf(entry, part) ==
    IF part = "null" THEN NullMsg
    ELSE IF part = "noSender" THEN [entry EXCEPT !.sender = EmptyStr]
    ELSE [entry EXCEPT !.timestamp = 0]

\* handleMessage(msg, key)
handleMessage(msg, k) ==
    IF msg = NullMsg
    THEN UNCHANGED <<renderedMessageKeys, messages, msgCache, decryptedText, needProc,
                     redelivered>>
    ELSE LET merged == Reconciled(messages, renderedMessageKeys, msg)
             \* an exception out of the updater leaves the state as it was
             newState == IF merged # messages /\ SaveRaises THEN messages ELSE merged
             changed == newState # messages
             savedInUpdater == IF changed
                               THEN saveMessagesToCache(msgCache, subscribed, newState)
                               ELSE msgCache
         IN /\ renderedMessageKeys' = renderedMessageKeys \cup {k}
            /\ messages' = newState
            /\ msgCache' = IF changed
                           THEN SaveMessagesEffect(savedInUpdater, currentChat, newState)
                           ELSE msgCache
            /\ decryptedText' = MountItems(decryptedText, newState)
            /\ needProc' = needProc \cup (KeysOf(newState) \ KeysOf(messages))
            /\ redelivered' = IF k \notin renderedMessageKeys THEN "none"
                              ELSE IF k \in fromCache THEN "cached" ELSE "live"

\* the replica delivers entry k on the live feed. The replica may deliver a
\* key any number of times.
HandleMessage(k) ==
    /\ app = "Chat" /\ mounted
    /\ subscribed # EmptyStr
    /\ k \in 1..Len(chatNode)
    /\ chatNode[k].chan = subscribed
    /\ handleMessage(chatNode[k], k)
    /\ UNCHANGED <<envVars, windowVars, idVars, svcVars, mounted, contacts, currentChat,
                   sharedKeysRef, subscribed, noKeyFor, contactsCache, newChatStatus,
                   lastChatId, fromCache>>

\* the replica delivers a part of entry k first
HandlePartial(k, part) ==
    /\ app = "Chat" /\ mounted
    /\ subscribed # EmptyStr
    /\ k \in 1..Len(chatNode)
    /\ chatNode[k].chan = subscribed
    /\ part \in PartialDeliveries
    /\ handleMessage(PartOf(chatNode[k], part), k)
    /\ UNCHANGED <<envVars, windowVars, idVars, svcVars, mounted, contacts, currentChat,
                   sharedKeysRef, subscribed, noKeyFor, contactsCache, newChatStatus,
                   lastChatId, fromCache>>

\* getSharedKey(partnerUsername) given what fetchPartnerPubKey returned on a
\* miss: the key, or NoKey when it throws
getSharedKey(partnerUsername, fetched) ==
    IF Get(sharedKeysRef, partnerUsername, NoKey) # NoKey
    THEN sharedKeysRef[partnerUsername]
    ELSE IF fetched = NoKey THEN NoKey
    ELSE deriveSharedKey(PrivKey(currentUser), fetched)

CacheSharedKey(partnerUsername, key) ==
    IF key = NoKey THEN sharedKeysRef ELSE Put(sharedKeysRef, partnerUsername, key)

\* does MessageItem take the plaintext echo instead of decrypting?
UsesEcho(msg) == msg.sender = currentUser /\ msg.text # NoText

\* a failure that takes down every mounted item
OnFailure_Rethrow(shown, k) == [j \in DOMAIN shown |-> SentinelChat]

\* the catch of process(): the failed item shows the sentinel
OnFailure(shown, k) == [shown EXCEPT ![k] = SentinelChat]

\* MessageItem's process() for the text entry with key k
ProcessItem(k, fetched) ==
    /\ app = "Chat" /\ mounted
    /\ k \in needProc
    /\ LET msg == EntryOf(messages, k)
           isMe == msg.sender = currentUser
           partnerForKey == IF isMe THEN currentChat.partner ELSE msg.sender
           hit == Get(sharedKeysRef, partnerForKey, NoKey) # NoKey
           key == getSharedKey(partnerForKey, fetched)
           text == decryptMessage(key, msg.ct, msg.iv)
       IN IF UsesEcho(msg)
          THEN /\ fetched = NoKey
               /\ decryptedText' = [decryptedText EXCEPT ![k] = msg.text]
               /\ noKeyFor' = noKeyFor \ {k}
               /\ UNCHANGED sharedKeysRef
          ELSE /\ fetched \in FetchOutcomes(partnerForKey)
               /\ hit => fetched = NoKey
               /\ sharedKeysRef' = CacheSharedKey(partnerForKey, key)
               /\ noKeyFor' = IF key = NoKey THEN noKeyFor \cup {k} ELSE noKeyFor \ {k}
               /\ decryptedText' =
                    IF key = NoKey THEN OnFailure(decryptedText, k)
                    ELSE IF msg.ct = NoCt \/ msg.iv = NoIv THEN decryptedText
                    ELSE IF text = DecryptionFailure THEN OnFailure(decryptedText, k)
                    ELSE [decryptedText EXCEPT ![k] = text]
    /\ needProc' = needProc \ {k}
    /\ UNCHANGED <<envVars, windowVars, idVars, svcVars, mounted, contacts, currentChat, messages,
                   renderedMessageKeys, subscribed, msgCache, contactsCache,
                   newChatStatus, lastChatId, feedVars>>

\* the payload handleSendMessage builds from the shared key
SendPayload(sender, key, text, nonce) ==
    LET enc == encryptMessage(key, text, nonce)
    IN [sender |-> sender, ct |-> enc.ct, iv |-> enc.iv, text |-> text]

\* handleSendMessage with the trimmed input `text`
HandleSendMessage(text, fetched) ==
    /\ app = "Chat" /\ mounted
    /\ currentChat # NoChat
    /\ fetched \in FetchOutcomes(currentChat.partner)
    /\ Get(sharedKeysRef, currentChat.partner, NoKey) # NoKey => fetched = NoKey
    /\ LET key == getSharedKey(currentChat.partner, fetched)
       IN /\ sharedKeysRef' = CacheSharedKey(currentChat.partner, key)
          /\ chatNode' = IF key = NoKey THEN chatNode
                         ELSE Append(chatNode,
                                Stored(currentChat.id, currentUser,
                                       SendPayload(currentUser, key, text, Len(chatNode) + 1)))
    /\ UNCHANGED <<app, currentUser, userChats, windowVars, idVars, svcVars, mounted, contacts,
                   currentChat, messages, renderedMessageKeys, subscribed, decryptedText,
                   needProc, noKeyFor, msgCache, contactsCache, newChatStatus, lastChatId,
                   feedVars>>

NoError == ""
\* new Error("Could not fetch partner's public key")
KeyError == "Could not fetch partner's public key"
\* the message of the error crypto.subtle.encrypt rejects with
EncryptError == "OperationError"
\* setTimeout(..., 3000)
ErrorSeconds == 3

\* the payload handleFileUpload builds: a file entry carries no plaintext
FilePayload(sender, key, file, nonce) ==
    LET enc == encryptMessage(key, file, nonce)
    IN [sender |-> sender, ct |-> enc.ct, iv |-> enc.iv, text |-> NoText]

\* a handler that reads the chat that is open when it resumes
SendTarget_OpenChat(call) == currentChat

\* `currentChat` in handleSendMessage and handleFileUpload after the await:
\* the constant of the render the handler was created in
SendTarget(call) == call.chat

\* handleSendMessage or handleFileUpload is invoked and runs up to
\* `await getSharedKey(currentChat.partner)`; getSharedKey returns the cached
\* key or starts the lookup
SendInvoked(kind, text) ==
    /\ app = "Chat" /\ mounted
    /\ currentChat # NoChat
    /\ kind = "text" => (text = inputMsg /\ text # NoText)
    /\ sends' = Append(sends, [kind |-> kind, chat |-> currentChat, text |-> text,
                               hit |-> Get(sharedKeysRef, currentChat.partner, NoKey) # NoKey,
                               at |-> "key", wrote |-> 0, open |-> EmptyStr])
    /\ UNCHANGED <<envVars, chatVars, windowVars, idVars, feedVars, resolveVars, pageVars,
                   keyVars, authVars, codecVars, evictVars, uiVars>>

\* the await of call c resumes with the key (fetched is what the lookup
\* returned on a miss): encrypt, build the payload, set() it on the channel;
\* `encrypts` is FALSE when encryptMessage or encryptFile throws
SendResumed(c, fetched, encrypts) ==
    /\ app = "Chat" /\ mounted
    /\ c \in DOMAIN sends
    /\ sends[c].at = "key"
    /\ LET call == sends[c]
           partner == call.chat.partner
           key == IF call.hit THEN sharedKeysRef[partner]
                  ELSE IF fetched = NoKey THEN NoKey
                  ELSE deriveSharedKey(PrivKey(currentUser), fetched)
           k == Len(chatNode) + 1
           payload == IF call.kind = "file" THEN FilePayload(currentUser, key, call.text, k)
                      ELSE SendPayload(currentUser, key, call.text, k)
       IN /\ IF call.hit THEN fetched = NoKey ELSE fetched \in FetchOutcomes(partner)
          /\ sharedKeysRef' = CacheSharedKey(partner, key)
          /\ IF key = NoKey \/ ~encrypts
             THEN \* catch: setErrorMessage(errorMsg); setTimeout(..., 3000)
                  /\ sends' = [sends EXCEPT ![c].at = "failed"]
                  /\ errorMessage' = IF key = NoKey THEN KeyError ELSE EncryptError
                  /\ errTimers' = Append(errTimers, clock + ErrorSeconds)
                  /\ errShownAt' = clock
                  /\ UNCHANGED <<chatNode, inputMsg>>
             ELSE /\ chatNode' = Append(chatNode,
                                        Stored(SendTarget(call).id, currentUser, payload))
                  /\ sends' = [sends EXCEPT ![c].at = "sent", ![c].wrote = k,
                                            ![c].open = currentChat.id]
                  /\ inputMsg' = IF call.kind = "text" THEN NoText ELSE inputMsg
                  /\ UNCHANGED <<errorMessage, errTimers, errShownAt>>
    /\ UNCHANGED <<app, currentUser, userChats, windowVars, idVars, feedVars, resolveVars,
                   pageVars, keyVars, authVars, codecVars, evictVars, clock, mounted, contacts,
                   currentChat, messages, renderedMessageKeys, subscribed, decryptedText,
                   needProc, noKeyFor, msgCache, contactsCache, newChatStatus, lastChatId>>

\* onChange of the input field: the user types
TypeInput(text) ==
    /\ app = "Chat" /\ mounted
    /\ inputMsg' = text
    /\ inputMsg' # inputMsg
    /\ UNCHANGED <<envVars, chatVars, windowVars, idVars, feedVars, resolveVars, pageVars,
                   keyVars, authVars, codecVars, sendVars, evictVars, errorMessage, errTimers,
                   clock, errShownAt>>

\* a second passes; a timer that is due runs first
Tick ==
    /\ app = "Chat" /\ mounted
    /\ clock < MaxClock
    /\ errTimers # <<>> => Head(errTimers) > clock
    /\ clock' = clock + 1
    /\ UNCHANGED <<envVars, chatVars, windowVars, idVars, feedVars, resolveVars, pageVars,
                   keyVars, authVars, codecVars, sendVars, evictVars, inputMsg, errorMessage,
                   errTimers, errShownAt>>

\* the callback of setTimeout(() => setErrorMessage(null), 3000)
ErrorTimerFires ==
    /\ app = "Chat"
    /\ errTimers # <<>>
    /\ Head(errTimers) = clock
    /\ errorMessage' = NoError
    /\ errTimers' = Tail(errTimers)
    /\ UNCHANGED <<envVars, chatVars, windowVars, idVars, feedVars, resolveVars, pageVars,
                   keyVars, authVars, codecVars, sendVars, evictVars, inputMsg, clock,
                   errShownAt>>

\* ------------------------------------------------------------------------
\* Chat.tsx: contact registry
\* ------------------------------------------------------------------------
HasUsername(list, u) == \E i \in 1..Len(list) : list[i].username = u
HasChatId(list, id) == \E i \in 1..Len(list) : list[i].chatId = id

\* gun...get('chats').set(chatId) on the channel list of `owner`
LinkAdded(lists, owner, chatId) == Put(lists, owner, Get(lists, owner, {}) \cup {chatId})

\* createChatLink: the two writes (nothing is written when it returns undefined)
createChatLinkWrites(lists, user, partnerUsername) ==
    LET chatId == createChatLinkId(user, partnerUsername)
    IN IF chatId = EmptyStr THEN lists
       ELSE LinkAdded(LinkAdded(lists, user, chatId), partnerUsername, chatId)

\* restoreChatLinks(username, contacts)
RECURSIVE restoreChatLinks(_, _, _)
restoreChatLinks(lists, username, list) ==
    IF Len(list) = 0 THEN lists
    ELSE restoreChatLinks(
            LinkAdded(LinkAdded(lists, username, list[1].chatId),
                      list[1].username, list[1].chatId),
            username, Tail(list))

\* chatId.split(':').find(n => n !== currentUser); EmptyStr when there is none
\* (an empty piece is falsy and adds nothing either)
PartnerOf(chatId) ==
    LET parts == SplitColon(chatId)
        others == {i \in 1..Len(parts) : parts[i] # currentUser}
    IN IF others = {} THEN EmptyStr
       ELSE parts[CHOOSE i \in others : \A j \in others : i <= j]

\* an updater that looks for the channel id only
ContactMerged_ByChatIdOnly(prev, partner, chatId) ==
    IF HasChatId(prev, chatId) THEN prev
    ELSE <<[username |-> partner, chatId |-> chatId]>> \o prev

\* the setContacts updater of handleContact
ContactMerged(prev, partner, chatId) ==
    IF HasUsername(prev, partner) \/ HasChatId(prev, chatId) THEN prev
    ELSE <<[username |-> partner, chatId |-> chatId]>> \o prev

\* the setContacts updater of handleNewChatSubmit
ContactStarted(prev, partner, chatId) ==
    IF HasUsername(prev, partner) THEN prev
    ELSE <<[username |-> partner, chatId |-> chatId]>> \o prev

\* the save-contacts effect and the saves inside the updaters
SaveContacts(cache, list) == IF Len(list) > 0 /\ ~SetItemThrows THEN list ELSE cache

\* handleContact(val): the replica delivers an entry of the user's channel list
HandleContact(val) ==
    /\ app = "Chat" /\ mounted
    /\ val \in Get(userChats, currentUser, {})
    /\ val # EmptyStr
    /\ LET partner == PartnerOf(val)
           merged == IF partner = EmptyStr THEN contacts
                     ELSE ContactMerged(contacts, partner, val)
           \* an exception out of the updater leaves the state as it was
           updated == IF merged # contacts /\ SaveRaises THEN contacts ELSE merged
       IN /\ contacts' = updated
          /\ contactsCache' = SaveContacts(contactsCache, updated)
    /\ UNCHANGED <<envVars, windowVars, idVars, svcVars, mounted, currentChat, messages,
                   renderedMessageKeys, sharedKeysRef, subscribed, decryptedText, needProc,
                   noKeyFor, msgCache, newChatStatus, lastChatId, feedVars>>

\* String.prototype.trim on the inputs used here (space is code unit 32)
RECURSIVE TrimLeft(_)
TrimLeft(s) == IF Len(s) > 0 /\ s[1] = 32 THEN TrimLeft(Tail(s)) ELSE s

RECURSIVE TrimRight(_)
TrimRight(s) ==
    IF Len(s) > 0 /\ s[Len(s)] = 32 THEN TrimRight(SubSeq(s, 1, Len(s) - 1)) ELSE s

Trim(s) == TrimRight(TrimLeft(s))

\* what the user can type into the new-chat dialog
NewChatInputs == Users \cup {<<32>>, <<98, 58, 98>>, <<32>> \o Bob}

\* a lookup result that is taken for a key whatever it is
NotFound_Never(pubKey) == FALSE

\* if (!pubKey)
NotFound(pubKey) == pubKey = NoKey

\* handleNewChatSubmit with newChatUsername = input
HandleNewChatSubmit(input, fetched) ==
    /\ app = "Chat" /\ mounted
    /\ LET trimmedUsername == Trim(input)
           chatId == createChatLinkId(currentUser, trimmedUsername)
           started == ContactStarted(contacts, trimmedUsername, chatId)
           updated == IF started # contacts /\ SaveRaises THEN contacts ELSE started
       IN IF trimmedUsername = EmptyStr \/ trimmedUsername = currentUser
             \/ ~IsValidUsername(trimmedUsername)
          THEN /\ fetched = NoKey
               /\ newChatStatus' = "rejected"
               /\ UNCHANGED <<userChats, contacts, contactsCache, currentChat, messages,
                              renderedMessageKeys, subscribed, decryptedText, needProc,
                              noKeyFor, msgCache, lastChatId, feedVars>>
          ELSE /\ fetched \in FetchOutcomes(trimmedUsername)
               /\ IF NotFound(fetched)
                  THEN /\ newChatStatus' = "User not found"
                       /\ UNCHANGED <<userChats, contacts, contactsCache, currentChat,
                                      messages, renderedMessageKeys, subscribed,
                                      decryptedText, needProc, noKeyFor, msgCache,
                                      lastChatId, feedVars>>
                  ELSE /\ userChats' = createChatLinkWrites(userChats, currentUser,
                                                            trimmedUsername)
                       /\ contacts' = updated
                       /\ contactsCache' = SaveContacts(contactsCache, updated)
                       /\ OpenChatEffects([partner |-> trimmedUsername, id |-> chatId])
                       /\ newChatStatus' = ""
                       /\ lastChatId' = chatId
    /\ UNCHANGED <<app, currentUser, chatNode, windowVars, idVars, svcVars, mounted, sharedKeysRef>>

\* App.handleLogin followed by the mount of Chat: the contacts effect restores
\* the cached contacts and subscribes to the user's channel list
Login ==
    /\ app = "Chat" /\ ~mounted
    /\ mounted' = TRUE
    /\ contacts' = contactsCache
    /\ userChats' = restoreChatLinks(userChats, currentUser, contactsCache)
    /\ UNCHANGED <<app, currentUser, chatNode, windowVars, idVars, svcVars, currentChat, messages,
                   renderedMessageKeys, sharedKeysRef, subscribed, decryptedText, needProc,
                   noKeyFor, msgCache, contactsCache, newChatStatus, lastChatId, feedVars>>

\* App.handleLogout: Chat unmounts, every effect is cleaned up (both feeds are
\* unsubscribed) and the component state is dropped; localStorage stays
Logout ==
    /\ app = "Chat" /\ mounted
    /\ mounted' = FALSE
    /\ contacts' = <<>>
    /\ currentChat' = NoChat
    /\ messages' = <<>>
    /\ renderedMessageKeys' = {}
    /\ sharedKeysRef' = EmptyMap
    /\ subscribed' = EmptyStr
    /\ decryptedText' = EmptyMap
    /\ needProc' = {}
    /\ noKeyFor' = {}
    /\ newChatStatus' = ""
    /\ lastChatId' = EmptyStr
    /\ fromCache' = {}
    /\ redelivered' = "none"
    /\ UNCHANGED <<envVars, windowVars, idVars, svcVars, msgCache, contactsCache>>

\* ------------------------------------------------------------------------
\* Other writers of the replicated store
\* ------------------------------------------------------------------------
Others == Users \ {currentUser}

\* another user's client runs handleSendMessage in its chat with currentUser
PeerSend(w, text) ==
    /\ w \in Others
    /\ LET key == deriveSharedKey(PrivKey(w), Directory(currentUser))
       IN chatNode' = Append(chatNode,
                        Stored(createChatLinkId(w, currentUser), w,
                               SendPayload(w, key, text, Len(chatNode) + 1)))
    /\ UNCHANGED <<app, currentUser, userChats, chatVars, windowVars, idVars, svcVars, feedVars>>

\* The chat graph is writable by anyone who knows the channel id. Carol, who
\* holds only her own private key, writes into the channel of currentUser and p:
\*   "echo"      claims currentUser as sender and carries only a plaintext field
\*   "asPartner" claims p as sender, encrypted under the key she shares with currentUser
\*   "asSelf"    names herself as sender, encrypted under that same key
\*   "garbled"   is what p sent, with the nonce damaged in the store
ForgeShapes == {"echo", "asPartner", "asSelf", "garbled"}

Forged(w, p, shape, nonce) ==
    LET keyW == deriveSharedKey(PrivKey(w), Directory(currentUser))
        keyP == deriveSharedKey(PrivKey(p), Directory(currentUser))
    IN IF shape = "echo"
       THEN [sender |-> currentUser, ct |-> NoCt, iv |-> NoIv, text |-> Evil]
       ELSE IF shape = "asPartner"
       THEN [sender |-> p, ct |-> <<keyW, Evil, nonce>>, iv |-> nonce, text |-> NoText]
       ELSE IF shape = "asSelf"
       THEN [sender |-> w, ct |-> <<keyW, Evil, nonce>>, iv |-> nonce, text |-> NoText]
       ELSE [sender |-> p, ct |-> <<keyP, "hi", nonce>>, iv |-> nonce + 1, text |-> "hi"]

Forge(p, shape) ==
    /\ p \in Others \ {Carol}
    /\ shape \in ForgeShapes
    /\ chatNode' = Append(chatNode,
                     Stored(createChatLinkId(currentUser, p), Carol,
                            Forged(Carol, p, shape, Len(chatNode) + 1)))
    /\ UNCHANGED <<app, currentUser, userChats, chatVars, windowVars, idVars, svcVars, feedVars>>

\* What a client other than this one can leave in its channel with
\* currentUser (the graph takes any object):
\*   "noCiphertext" an entry with a nonce and no ct field
\*   "noNonce"      an entry with a ct field and no iv field
\*   "emptyText"    the empty string, encrypted under the key of the channel
PartialShapes == {"noCiphertext", "noNonce", "emptyText"}

Partial(w, shape, nonce) ==
    LET key == deriveSharedKey(PrivKey(w), Directory(currentUser))
    IN IF shape = "noCiphertext"
       THEN [sender |-> w, ct |-> NoCt, iv |-> nonce, text |-> NoText]
       ELSE IF shape = "noNonce"
       THEN [sender |-> w, ct |-> <<key, "hi", nonce>>, iv |-> NoIv, text |-> NoText]
       ELSE [sender |-> w, ct |-> <<key, NoText, nonce>>, iv |-> nonce, text |-> NoText]

PeerSendPartial(w, shape) ==
    /\ w \in Others
    /\ shape \in PartialShapes
    /\ chatNode' = Append(chatNode,
                     Stored(createChatLinkId(w, currentUser), w,
                            Partial(w, shape, Len(chatNode) + 1)))
    /\ UNCHANGED <<app, currentUser, userChats, chatVars, windowVars, idVars, svcVars, feedVars>>

\* another user's client runs createChatLink(w, currentUser)
PeerStartChat(w) ==
    /\ w \in Others
    /\ userChats' = createChatLinkWrites(userChats, w, currentUser)
    /\ userChats' # userChats
    /\ UNCHANGED <<app, currentUser, chatNode, chatVars, windowVars, idVars, svcVars, feedVars>>

\* createChatLink in w's client with partner currentUser, when the second
\* set(), the one on the partner's channel list, never reaches the replica
PeerStartChatLost(w) ==
    /\ w \in Others
    /\ userChats' = LinkAdded(userChats, w, createChatLinkId(w, currentUser))
    /\ userChats' # userChats
    /\ UNCHANGED <<app, currentUser, chatNode, chatVars, windowVars, idVars, svcVars, feedVars>>

\* w logs in again: the contacts effect of w's client runs restoreChatLinks on
\* its cached contact with currentUser
PeerRestore(w) ==
    /\ w \in Others
    /\ createChatLinkId(w, currentUser) \in Get(userChats, w, {})
    /\ userChats' = restoreChatLinks(userChats, w,
                        <<[username |-> currentUser,
                           chatId |-> createChatLinkId(w, currentUser)]>>)
    /\ userChats' # userChats
    /\ UNCHANGED <<app, currentUser, chatNode, chatVars, windowVars, idVars, svcVars, feedVars>>

\* The channel list of a user is writable by anyone: some party adds the id of
\* a channel between two other users to currentUser's list
ForeignLink(a, b) ==
    /\ a \in Others /\ b \in Others /\ a # b
    /\ userChats' = LinkAdded(userChats, currentUser, createChatLinkId(a, b))
    /\ userChats' # userChats
    /\ UNCHANGED <<app, currentUser, chatNode, chatVars, windowVars, idVars, svcVars, feedVars>>

\* ------------------------------------------------------------------------
\* ChatWindow.tsx (with ChatPage.tsx and the gunService object)
\* ------------------------------------------------------------------------
\* the contact ChatPage.handleNewChat selects for partner p
ContactFor(p) == [username |-> p, chatId |-> createChatId(currentUser, p)]

\* A listenForMessages subscription is a closure over its chat, its key and
\* its Map. The closure of a removed listener lives on only while one of its
\* callbacks is suspended; slots of dead closures are reused.
FreeSub == [chan |-> EmptyStr, key |-> NoKey, map |-> <<>>]

Collected(maps, liveId, pending) ==
    [i \in DOMAIN maps |->
        IF i = liveId \/ \E f \in pending : f.inst = i THEN maps[i] ELSE FreeSub]

\* the messages effect of ChatWindow after a render with (c, key): the previous
\* listener is removed; without contact or key the timeline is cleared,
\* otherwise a new listener with a new Map is installed
WindowMessagesEffect(c, key) ==
    LET kept == Collected(messageMap, 0, inflight)
        free == {i \in DOMAIN kept : kept[i] = FreeSub}
        slot == CHOOSE i \in free : \A j \in free : i <= j
    IN IF c = NoContact \/ key = NoKey
       THEN /\ redelivered' = "none"
            /\ cwMessages' = <<>>
            /\ cwListening' = 0
            /\ messageMap' = kept
       ELSE /\ free # {}
            /\ redelivered' = "none"
            /\ cwListening' = slot
            /\ messageMap' = [kept EXCEPT ![slot] = [chan |-> c.chatId, key |-> key,
                                                     map |-> <<>>]]
            /\ UNCHANGED cwMessages

\* ChatPage.handleNewChat(p) / handleSelectContact: the contact prop changes
WindowSelect(p) ==
    /\ app = "ChatWindow"
    /\ p \in Others
    /\ contact' = ContactFor(p)
    /\ deriving' = p
    /\ WindowMessagesEffect(ContactFor(p), sharedKey)
    /\ UNCHANGED <<envVars, chatVars, idVars, svcVars, sharedKey, inflight, fromCache>>

\* ChatPage.handleBack: the contact prop becomes null
WindowBack ==
    /\ app = "ChatWindow"
    /\ contact # NoContact
    /\ contact' = NoContact
    /\ deriving' = EmptyStr
    /\ WindowMessagesEffect(NoContact, sharedKey)
    /\ UNCHANGED <<envVars, chatVars, idVars, svcVars, sharedKey, inflight, fromCache>>

\* gun...get('chats').set({[name]: chatId}) on the channel list of `owner`
ObjAdded(objs, owner, name, chatId) ==
    Put(objs, owner, Get(objs, owner, {}) \cup {[name |-> name, chatId |-> chatId]})

\* gunService.createChat: the two writes
createChatWrites(objs, currentUsr, partnerUser) ==
    LET chatId == createChatId(currentUsr, partnerUser)
    IN ObjAdded(ObjAdded(objs, currentUsr, partnerUser, chatId),
                partnerUser, currentUsr, chatId)

\* NewChatModal.handleSubmit with partnerUsername = input, then
\* ChatPage.handleNewChat when the lookup returned a key
WindowNewChatSubmit(input, fetched) ==
    /\ app = "ChatWindow"
    /\ LET trimmedUsername == Trim(input)
       IN IF trimmedUsername = EmptyStr
          THEN /\ fetched = NoKey
               /\ modalStatus' = "Please enter a username."
               /\ UNCHANGED <<userChatObjs, windowVars, feedVars>>
          ELSE IF trimmedUsername = currentUser
          THEN /\ fetched = NoKey
               /\ modalStatus' = "You can't chat with yourself."
               /\ UNCHANGED <<userChatObjs, windowVars, feedVars>>
          ELSE /\ fetched \in FetchOutcomes(trimmedUsername)
               /\ IF fetched = NoKey
                  THEN /\ modalStatus' = "not found."
                       /\ UNCHANGED <<userChatObjs, windowVars, feedVars>>
                  ELSE /\ modalStatus' = "Searching for user..."
                       /\ userChatObjs' = createChatWrites(userChatObjs, currentUser,
                                                           trimmedUsername)
                       /\ contact' = ContactFor(trimmedUsername)
                       /\ deriving' = trimmedUsername
                       /\ WindowMessagesEffect(ContactFor(trimmedUsername), sharedKey)
                       /\ UNCHANGED <<sharedKey, inflight, fromCache>>
    /\ UNCHANGED <<envVars, chatVars, idVars, authVars, codecVars, sendVars, evictVars, uiVars, resolveVars, keyVars, sbContacts>>

\* the listenForContacts callback of Sidebar for the string entry val of the
\* user's channel list (for an object entry chatId.split is not a function)
SidebarContact(val) ==
    /\ app = "ChatWindow"
    /\ val \in Get(userChats, currentUser, {})
    /\ val # EmptyStr
    /\ LET partner == PartnerOf(val)
       IN sbContacts' = IF partner = EmptyStr \/ HasUsername(sbContacts, partner)
                        THEN sbContacts
                        ELSE Append(sbContacts, [username |-> partner, chatId |-> val])
    /\ sbContacts' # sbContacts
    /\ UNCHANGED <<envVars, chatVars, windowVars, idVars, authVars, codecVars, sendVars, evictVars, uiVars, feedVars, resolveVars, keyVars,
                   userChatObjs, modalStatus>>

\* deriveKey() resumes with what gunService.fetchPartnerPubKey returned
WindowDeriveKey(fetched) ==
    /\ app = "ChatWindow"
    /\ deriving # EmptyStr
    /\ fetched \in FetchOutcomes(deriving)
    /\ deriving' = EmptyStr
    /\ IF fetched = NoKey
       THEN UNCHANGED <<sharedKey, cwMessages, cwListening, messageMap, redelivered>>
       ELSE /\ sharedKey' = deriveSharedKey(PrivKey(currentUser), fetched)
            /\ WindowMessagesEffect(contact, sharedKey')
    /\ UNCHANGED <<envVars, chatVars, idVars, svcVars, contact, inflight, fromCache>>

\* messageMap.set(id, finalMessage): a Map keeps the position of a key it holds
MapSet(map, final) ==
    IF final.key \in KeysOf(map)
    THEN [i \in 1..Len(map) |-> IF map[i].key = final.key THEN final ELSE map[i]]
    ELSE Append(map, final)

\* the tail of the listenForMessages callback of subscription `inst` for
\* entry k, once decryptedText is known
WindowFinish(inst, k, shownText) ==
    LET final == [chatNode[k] EXCEPT !.text = shownText]
        newMap == MapSet(messageMap[inst].map, final)
    IN /\ messageMap' = Collected([messageMap EXCEPT ![inst].map = newMap],
                                   cwListening, inflight')
       /\ cwMessages' = SortByTime(newMap)

\* the text the callback takes for an entry without ciphertext
WindowEcho(msgData) ==
    IF msgData.text # NoText /\ msgData.sender = currentUser THEN msgData.text ELSE NoText

\* the replica delivers entry k to the live listener; the callback runs up to
\* its first await (an entry without ct or iv is finished at once)
WindowDeliver(k) ==
    /\ app = "ChatWindow"
    /\ cwListening # 0
    /\ k \in 1..Len(chatNode)
    /\ chatNode[k].chan = messageMap[cwListening].chan
    /\ redelivered' = IF k \in KeysOf(messageMap[cwListening].map) THEN "live" ELSE "none"
    /\ IF k \in KeysOf(messageMap[cwListening].map)
       THEN UNCHANGED <<cwMessages, messageMap, inflight>>
       ELSE IF chatNode[k].ct # NoCt /\ chatNode[k].iv # NoIv
       THEN /\ inflight' = inflight \cup {[inst |-> cwListening, key |-> k]}
            /\ UNCHANGED <<cwMessages, messageMap>>
       ELSE /\ UNCHANGED inflight
            /\ WindowFinish(cwListening, k, WindowEcho(chatNode[k]))
    /\ UNCHANGED <<envVars, chatVars, idVars, svcVars, contact, sharedKey, deriving, cwListening,
                   fromCache>>

\* the text a failed decryption leaves in the entry
WindowOnFailure(text) == IF text = DecryptionFailure THEN SentinelWindow ELSE text

\* `await cryptoService.decryptMessage(...)` of a suspended callback completes
WindowDecrypted(f) ==
    /\ app = "ChatWindow"
    /\ f \in inflight
    /\ inflight' = inflight \ {f}
    /\ LET text == decryptMessage(messageMap[f.inst].key, chatNode[f.key].ct,
                                  chatNode[f.key].iv)
       IN WindowFinish(f.inst, f.key, WindowOnFailure(text))
    /\ UNCHANGED <<envVars, chatVars, idVars, svcVars, contact, sharedKey, deriving, cwListening,
                   feedVars>>

\* if (!newMessage.trim() || !contact || !sharedKey) return
WindowCanSend == contact # NoContact /\ sharedKey # NoKey

\* ChatWindow.handleSendMessage with the input `text`: encryptMessage with the
\* state sharedKey of this render, gunService.sendMessage(contact.chatId, ...)
WindowSendMessage(text) ==
    /\ app = "ChatWindow"
    /\ WindowCanSend
    /\ chatNode' = Append(chatNode,
                      Stored(contact.chatId, currentUser,
                             SendPayload(currentUser, sharedKey, text, Len(chatNode) + 1)))
    /\ UNCHANGED <<app, currentUser, userChats, chatVars, windowVars, idVars, svcVars, feedVars>>

\* ------------------------------------------------------------------------
\* gunService.fetchPartnerPubKey (the Key Directory lookup)
\* ------------------------------------------------------------------------
\* JavaScript values a read of users/<name>/pubKey can yield. A string holds
\* the number it stringifies: 0 is the empty string '', -1 a string that is
\* not JSON, k > 0 the text JSON.stringify wrote for the public key k.
Undefined == [kind |-> "undefined", val |-> 0]
Null == [kind |-> "null", val |-> 0]
Str(v) == [kind |-> "string", val |-> v]
Obj(k) == [kind |-> "object", val |-> k]
NotReturned == [kind |-> "pending", val |-> 0]

\* JSON.stringify(pubKey) as createUser stores it
JSONstringify(k) == Str(k)

\* retries = 5, delayMs = 700
Retries == 5
InitialDelayMs == 700
DelayCapMs == 2000
MinTimeoutMs == 900

\* res !== undefined && res !== null && res !== ''
IsNonEmptyRead(res) ==
    /\ res.kind # "undefined"
    /\ res.kind # "null"
    /\ ~(res.kind = "string" /\ res.val = 0)

\* try { return typeof res === 'string' ? JSON.parse(res) : res } catch { return res }
ParsedKey(res) == IF res.kind = "string" /\ res.val > 0 THEN Obj(res.val) ELSE res

\* a backoff that doubles the delay
NextDelayMs_Doubled(delayMs) ==
    IF 2 * delayMs < DelayCapMs THEN 2 * delayMs ELSE DelayCapMs

\* Math.min(2000, Math.round(delayMs * 1.2))
NextDelayMs(delayMs) ==
    LET rounded == (12 * delayMs + 5) \div 10
    IN IF rounded < DelayCapMs THEN rounded ELSE DelayCapMs

\* Math.max(900, Math.floor(delayMs / 2)): the timeout of the timer of tryOnce
AttemptTimeoutMs(delayMs) ==
    IF delayMs \div 2 > MinTimeoutMs THEN delayMs \div 2 ELSE MinTimeoutMs

\* what the store can hand to a once() callback: the value of the node, or
\* undefined while the node has not replicated to this peer
StoreReads == {pubKeyNode, Undefined}

\* a reply is dropped when `done` is set
ReplyIgnored_Never(a) == FALSE

\* if (done) return;
ReplyIgnored(a) == a \in rsDone

\* `await tryOnce()` of attempt a resumes with res, resolved by `by`: the loop returns the
\* key or goes on to the backoff wait
AttemptCompleted(a, by, res) ==
    /\ rsLog' = Append(rsLog, [by |-> by, res |-> res, attempt |-> a])
    /\ IF IsNonEmptyRead(res)
       THEN rsPhase' = "returned" /\ rsResult' = ParsedKey(res) /\ UNCHANGED rsWaits
       ELSE /\ rsPhase' = "backoff"
            /\ rsWaits' = Append(rsWaits, rsDelayMs')
            /\ UNCHANGED rsResult

\* tryOnce() of attempt rsI' + 1: the timer is set and once() registers its
\* callback, or once() throws and the promise resolves with undefined
AttemptStarted(threw) ==
    /\ rsTimers' = Append(rsTimers, AttemptTimeoutMs(rsDelayMs'))
    /\ IF threw
       THEN /\ rsDone' = rsDone \cup {rsI' + 1}
            /\ UNCHANGED rsOpen
            /\ AttemptCompleted(rsI' + 1, "throw", Undefined)
       ELSE /\ rsOpen' = rsOpen \cup {rsI' + 1}
            /\ rsPhase' = "attempt"
            /\ UNCHANGED <<rsDone, rsLog, rsResult, rsWaits>>

\* fetchPartnerPubKey(partnerUsername) is called
ResolveBegin(threw) ==
    /\ rsPhase = "called"
    /\ UNCHANGED <<rsI, rsDelayMs>>
    /\ IF ~gun
       THEN /\ rsPhase' = "returned"
            /\ rsResult' = Null
            /\ UNCHANGED <<rsOpen, rsDone, rsLog, rsTimers, rsWaits>>
       ELSE AttemptStarted(threw)
    /\ UNCHANGED <<envVars, chatVars, windowVars, idVars, authVars, codecVars, sendVars, evictVars, uiVars, feedVars, pageVars, keyVars, gun,
                   pubKeyNode, rsLate>>

\* the timer of the running attempt fires first
AttemptTimeout ==
    /\ rsPhase = "attempt"
    /\ (rsI + 1) \notin rsDone
    /\ rsDone' = rsDone \cup {rsI + 1}
    /\ UNCHANGED <<rsI, rsDelayMs, rsOpen, rsTimers>>
    /\ AttemptCompleted(rsI + 1, "timer", Undefined)
    /\ UNCHANGED <<envVars, chatVars, windowVars, idVars, authVars, codecVars, sendVars, evictVars, uiVars, feedVars, pageVars, keyVars, gun,
                   pubKeyNode, rsLate>>

\* the store fires the once() callback of attempt a with res
StoreReply(a, res) ==
    /\ a \in rsOpen
    /\ res \in StoreReads
    /\ rsOpen' = rsOpen \ {a}
    /\ UNCHANGED <<rsI, rsDelayMs>>
    /\ IF ReplyIgnored(a)
       THEN /\ rsLate' = TRUE
            /\ UNCHANGED <<rsPhase, rsResult, rsDone, rsLog, rsTimers, rsWaits>>
       ELSE /\ rsDone' = rsDone \cup {a}
            /\ AttemptCompleted(a, "reply", res)
            /\ UNCHANGED <<rsLate, rsTimers>>
    /\ UNCHANGED <<envVars, chatVars, windowVars, idVars, authVars, codecVars, sendVars, evictVars, uiVars, feedVars, pageVars, keyVars, gun,
                   pubKeyNode>>

\* the backoff wait ends: delayMs grows, i++ and the loop test
BackoffElapsed(threw) ==
    /\ rsPhase = "backoff"
    /\ rsDelayMs' = NextDelayMs(rsDelayMs)
    /\ rsI' = rsI + 1
    /\ IF rsI' < Retries
       THEN AttemptStarted(threw)
       ELSE /\ rsPhase' = "returned"
            /\ rsResult' = Null
            /\ UNCHANGED <<rsOpen, rsDone, rsLog, rsTimers, rsWaits>>
    /\ UNCHANGED <<envVars, chatVars, windowVars, idVars, authVars, codecVars, sendVars, evictVars, uiVars, feedVars, pageVars, keyVars, gun,
                   pubKeyNode, rsLate>>

\* ------------------------------------------------------------------------
\* Chat.tsx getSharedKey, one step per await (the Session Key Cache)
\* ------------------------------------------------------------------------
\* the names everything but sharedKeysRef of Chat.tsx goes by
chatVarsButKeys ==
    <<mounted, contacts, currentChat, messages, renderedMessageKeys, subscribed,
      decryptedText, needProc, noKeyFor, msgCache, contactsCache, newChatStatus, lastChatId>>

\* a call that looks the partner up whatever the cache holds
CacheHit_Never(partnerUsername) == FALSE

\* if (sharedKeysRef.current[partnerUsername])
CacheHit(partnerUsername) == Get(sharedKeysRef, partnerUsername, NoKey) # NoKey

\* a failed lookup that stores the missing key
StoredOnFailure_NoKey(cache, partnerUsername) == Put(cache, partnerUsername, NoKey)

\* `throw new Error(...)` comes before any write to sharedKeysRef
StoredOnFailure(cache, partnerUsername) == cache

\* a key agreement that salts the key with the call
AgreedKey_PerCall(c, jwk) == (deriveSharedKey(PrivKey(currentUser), jwk) + c) % GroupP

\* call c: importKey('jwk', partnerPubJwk) and deriveSharedKey(privateKey, partnerPub)
AgreedKey(c, jwk) == deriveSharedKey(PrivKey(currentUser), jwk)

\* getSharedKey(partnerUsername) is called (by a MessageItem effect or by
\* handleSendMessage): it returns the cached key or awaits the lookup
KeyCall(partnerUsername) ==
    /\ app = "Chat" /\ mounted
    /\ IF CacheHit(partnerUsername)
       THEN /\ keyCalls' = Append(keyCalls, [partner |-> partnerUsername, at |-> "returned",
                                             jwk |-> NoKey,
                                             key |-> sharedKeysRef[partnerUsername],
                                             hit |-> TRUE])
            /\ UNCHANGED dirReads
       ELSE /\ keyCalls' = Append(keyCalls, [partner |-> partnerUsername, at |-> "fetch",
                                             jwk |-> NoKey, key |-> NoKey, hit |-> FALSE])
            /\ dirReads' = dirReads + 1
    /\ UNCHANGED <<envVars, chatVars, windowVars, idVars, authVars, codecVars, sendVars, evictVars, uiVars, feedVars, resolveVars, pageVars,
                   agreements>>

\* `await fetchPartnerPubKey(partnerUsername)` of call c resumes with fetched
KeyFetched(c, fetched) ==
    /\ c \in DOMAIN keyCalls
    /\ keyCalls[c].at = "fetch"
    /\ fetched \in FetchOutcomes(keyCalls[c].partner)
    /\ IF fetched = NoKey
       THEN /\ keyCalls' = [keyCalls EXCEPT ![c].at = "threw"]
            /\ sharedKeysRef' = StoredOnFailure(sharedKeysRef, keyCalls[c].partner)
       ELSE /\ keyCalls' = [keyCalls EXCEPT ![c].at = "derive", ![c].jwk = fetched]
            /\ UNCHANGED sharedKeysRef
    /\ UNCHANGED <<envVars, chatVarsButKeys, windowVars, idVars, authVars, codecVars, sendVars, evictVars, uiVars, feedVars, resolveVars,
                   pageVars, dirReads, agreements>>

\* importKey and deriveSharedKey of call c are done: the key is stored and
\* returned
KeyDerived(c) ==
    /\ c \in DOMAIN keyCalls
    /\ keyCalls[c].at = "derive"
    /\ LET derived == AgreedKey(c, keyCalls[c].jwk)
       IN /\ sharedKeysRef' = Put(sharedKeysRef, keyCalls[c].partner, derived)
          /\ keyCalls' = [keyCalls EXCEPT ![c].at = "returned", ![c].key = derived]
    /\ agreements' = agreements + 1
    /\ UNCHANGED <<envVars, chatVarsButKeys, windowVars, idVars, authVars, codecVars, sendVars, evictVars, uiVars, feedVars, resolveVars,
                   pageVars, dirReads>>

\* ------------------------------------------------------------------------
\* Identifier functions applied to arbitrary strings
\* ------------------------------------------------------------------------
NotComputed == <<>>

ComputeIds ==
    /\ idResult = NotComputed
    /\ idResult' = [link |-> createChatLinkId(idArgs[1], idArgs[2]),
                    linkSwapped |-> createChatLinkId(idArgs[2], idArgs[1]),
                    chat |-> createChatId(idArgs[1], idArgs[2]),
                    chatSwapped |-> createChatId(idArgs[2], idArgs[1])]
    /\ UNCHANGED <<envVars, chatVars, windowVars, idArgs, feedVars, svcVars>>

\* ------------------------------------------------------------------------
\* cryptoService at the level of bytes: text encoding, AES-GCM, base64
\* ------------------------------------------------------------------------
\* a failed call (an exception) or the value it returned
Failure == [ok |-> FALSE, val |-> <<>>]
Returned(v) == [ok |-> TRUE, val |-> v]

IsHighSurrogate(c) == c >= 55296 /\ c <= 56319
IsLowSurrogate(c) == c >= 56320 /\ c <= 57343

\* the UTF-8 bytes of one code point
Utf8OfCodePoint(cp) ==
    IF cp < 128 THEN <<cp>>
    ELSE IF cp < 2048 THEN <<192 + (cp \div 64), 128 + (cp % 64)>>
    ELSE IF cp < 65536
    THEN <<224 + (cp \div 4096), 128 + ((cp \div 64) % 64), 128 + (cp % 64)>>
    ELSE <<240 + (cp \div 262144), 128 + ((cp \div 4096) % 64),
           128 + ((cp \div 64) % 64), 128 + (cp % 64)>>

\* new TextEncoder().encode(s): a surrogate pair is one code point, a
\* surrogate without its partner is encoded as U+FFFD
RECURSIVE textToArrayBuffer(_)
textToArrayBuffer(s) ==
    IF Len(s) = 0 THEN <<>>
    ELSE IF IsHighSurrogate(s[1]) /\ Len(s) >= 2 /\ IsLowSurrogate(s[2])
    THEN Utf8OfCodePoint(65536 + (s[1] - 55296) * 1024 + (s[2] - 56320))
             \o textToArrayBuffer(SubSeq(s, 3, Len(s)))
    ELSE IF IsHighSurrogate(s[1]) \/ IsLowSurrogate(s[1])
    THEN Utf8OfCodePoint(65533) \o textToArrayBuffer(Tail(s))
    ELSE Utf8OfCodePoint(s[1]) \o textToArrayBuffer(Tail(s))

IsContinuation(b) == b >= 128 /\ b <= 191

\* the code units of one code point
CodeUnitsOf(cp) ==
    IF cp < 65536 THEN <<cp>>
    ELSE <<55296 + ((cp - 65536) \div 1024), 56320 + ((cp - 65536) % 1024)>>

\* the UTF-8 decoder: a byte that starts no well-formed sequence becomes U+FFFD
RECURSIVE Utf8Decode(_)
Utf8Decode(b) ==
    IF Len(b) = 0 THEN <<>>
    ELSE IF b[1] < 128 THEN <<b[1]>> \o Utf8Decode(Tail(b))
    ELSE IF b[1] >= 194 /\ b[1] <= 223 /\ Len(b) >= 2 /\ IsContinuation(b[2])
    THEN CodeUnitsOf((b[1] - 192) * 64 + (b[2] - 128)) \o Utf8Decode(SubSeq(b, 3, Len(b)))
    ELSE IF b[1] >= 224 /\ b[1] <= 239 /\ Len(b) >= 3 /\ IsContinuation(b[2])
            /\ IsContinuation(b[3])
            /\ (b[1] - 224) * 4096 + (b[2] - 128) * 64 + (b[3] - 128) >= 2048
            /\ ~(IsHighSurrogate((b[1] - 224) * 4096 + (b[2] - 128) * 64 + (b[3] - 128))
                 \/ IsLowSurrogate((b[1] - 224) * 4096 + (b[2] - 128) * 64 + (b[3] - 128)))
    THEN CodeUnitsOf((b[1] - 224) * 4096 + (b[2] - 128) * 64 + (b[3] - 128))
             \o Utf8Decode(SubSeq(b, 4, Len(b)))
    ELSE IF b[1] >= 240 /\ b[1] <= 244 /\ Len(b) >= 4 /\ IsContinuation(b[2])
            /\ IsContinuation(b[3]) /\ IsContinuation(b[4])
            /\ (b[1] - 240) * 262144 + (b[2] - 128) * 4096 + (b[3] - 128) * 64
                   + (b[4] - 128) \in 65536..1114111
    THEN CodeUnitsOf((b[1] - 240) * 262144 + (b[2] - 128) * 4096 + (b[3] - 128) * 64
                         + (b[4] - 128))
             \o Utf8Decode(SubSeq(b, 5, Len(b)))
    ELSE <<65533>> \o Utf8Decode(Tail(b))

\* new TextDecoder().decode(buf): UTF-8, not fatal, ignoreBOM false: a leading
\* U+FEFF is dropped
arrayBufferToText(buf) ==
    LET decoded == Utf8Decode(buf)
    IN IF Len(decoded) > 0 /\ decoded[1] = 65279 THEN Tail(decoded) ELSE decoded

\* the base64 alphabet: the character of a sextet, the sextet of a character
\* (-1 for a character outside the alphabet)
B64Char(v) ==
    IF v < 26 THEN 65 + v
    ELSE IF v < 52 THEN 97 + (v - 26)
    ELSE IF v < 62 THEN 48 + (v - 52)
    ELSE IF v = 62 THEN 43 ELSE 47

B64Value(c) ==
    IF c >= 65 /\ c <= 90 THEN c - 65
    ELSE IF c >= 97 /\ c <= 122 THEN c - 97 + 26
    ELSE IF c >= 48 /\ c <= 57 THEN c - 48 + 52
    ELSE IF c = 43 THEN 62
    ELSE IF c = 47 THEN 63
    ELSE -1

PadChar == 61

\* btoa over the binary string of the bytes
RECURSIVE arrayBufferToB64(_)
arrayBufferToB64(bytes) ==
    IF Len(bytes) = 0 THEN <<>>
    ELSE IF Len(bytes) = 1
    THEN <<B64Char(bytes[1] \div 4), B64Char((bytes[1] % 4) * 16), PadChar, PadChar>>
    ELSE IF Len(bytes) = 2
    THEN <<B64Char(bytes[1] \div 4),
           B64Char((bytes[1] % 4) * 16 + (bytes[2] \div 16)),
           B64Char((bytes[2] % 16) * 4), PadChar>>
    ELSE <<B64Char(bytes[1] \div 4),
           B64Char((bytes[1] % 4) * 16 + (bytes[2] \div 16)),
           B64Char((bytes[2] % 16) * 4 + (bytes[3] \div 64)),
           B64Char(bytes[3] % 64)>> \o arrayBufferToB64(SubSeq(bytes, 4, Len(bytes)))

IsAsciiWhitespace(c) == c \in {9, 10, 12, 13, 32}

\* the bytes of a run of sextets; the bits left over at the end are discarded
RECURSIVE SextetsToBytes(_)
SextetsToBytes(v) ==
    IF Len(v) < 2 THEN <<>>
    ELSE IF Len(v) = 2 THEN <<v[1] * 4 + (v[2] \div 16)>>
    ELSE IF Len(v) = 3
    THEN <<v[1] * 4 + (v[2] \div 16), (v[2] % 16) * 16 + (v[3] \div 4)>>
    ELSE <<v[1] * 4 + (v[2] \div 16), (v[2] % 16) * 16 + (v[3] \div 4),
           (v[3] % 4) * 64 + v[4]>> \o SextetsToBytes(SubSeq(v, 5, Len(v)))

\* atob, then the bytes of the binary string: whitespace is removed, one or
\* two trailing '=' of a string of 4n characters are removed, and the call
\* throws on a length of 4n+1 or a character outside the alphabet
b64ToArrayBuffer(b64) ==
    LET data == SelectSeq(b64, LAMBDA c : ~IsAsciiWhitespace(c))
        n == Len(data)
        unpadded == IF n > 0 /\ n % 4 = 0 /\ data[n] = PadChar
                    THEN IF data[n - 1] = PadChar THEN SubSeq(data, 1, n - 2)
                         ELSE SubSeq(data, 1, n - 1)
                    ELSE data
    IN IF Len(unpadded) % 4 = 1 \/ \E i \in 1..Len(unpadded) : B64Value(unpadded[i]) < 0
       THEN Failure
       ELSE Returned(SextetsToBytes([i \in 1..Len(unpadded) |-> B64Value(unpadded[i])]))

RECURSIVE SumOf(_)
SumOf(bytes) == IF Len(bytes) = 0 THEN 0 ELSE bytes[1] + SumOf(Tail(bytes))

\* AES-GCM as an ideal authenticated cipher: the body is the plaintext under a
\* key stream of (key, iv), the tag is a function of (key, iv, body) without
\* collisions
KeyStream(key, iv, i) == (7 * key + 3 * SumOf(iv) + 11 * i) % 256
GcmBody(key, iv, plain) ==
    [i \in 1..Len(plain) |-> (plain[i] + KeyStream(key, iv, i)) % 256]
GcmTag(key, iv, body) == <<key>> \o iv \o body

\* crypto.subtle.encrypt({name: 'AES-GCM', iv}, key, plain): body, then tag
subtleEncrypt(key, iv, plain) ==
    GcmBody(key, iv, plain) \o GcmTag(key, iv, GcmBody(key, iv, plain))

\* a decrypt that does not look at the tag
TagAccepted_Always(key, iv, body, tag) == TRUE

\* the tag test of crypto.subtle.decrypt
TagAccepted(key, iv, body, tag) == tag = GcmTag(key, iv, body)

\* crypto.subtle.decrypt({name: 'AES-GCM', iv}, key, data): throws unless the
\* tag is the one of (key, iv, body)
subtleDecrypt(key, iv, data) ==
    LET twice == Len(data) - 1 - Len(iv)
        n == twice \div 2
        body == SubSeq(data, 1, n)
        tag == SubSeq(data, n + 1, Len(data))
    IN IF twice < 0 \/ twice % 2 # 0 \/ Len(iv) = 0 THEN Failure
       ELSE IF ~TagAccepted(key, iv, body, tag) THEN Failure
       ELSE Returned([i \in 1..n |-> (body[i] + 256 - KeyStream(key, iv, i)) % 256])

\* an encryptMessage that keeps one nonce for every call
encryptText_FixedNonce(key, plaintext, iv) ==
    [ct |-> arrayBufferToB64(subtleEncrypt(key, <<0, 0, 0, 0, 0, 0, 0, 0, 0, 0, 0, 0>>,
                                           textToArrayBuffer(plaintext))),
     iv |-> arrayBufferToB64(<<0, 0, 0, 0, 0, 0, 0, 0, 0, 0, 0, 0>>)]

\* encryptMessage(sharedKey, plaintext), iv being what getRandomValues drew
encryptText(key, plaintext, iv) ==
    [ct |-> arrayBufferToB64(subtleEncrypt(key, iv, textToArrayBuffer(plaintext))),
     iv |-> arrayBufferToB64(iv)]

\* encryptFile(sharedKey, file), buffer being file.arrayBuffer()
encryptFile(key, buffer, iv) ==
    [ct |-> arrayBufferToB64(subtleEncrypt(key, iv, buffer)),
     iv |-> arrayBufferToB64(iv)]

\* the bytes decryptMessage and decryptFile hand to their last line
DecryptedBytes(key, ct_b64, iv_b64) ==
    LET iv == b64ToArrayBuffer(iv_b64)
        ciphertext == b64ToArrayBuffer(ct_b64)
    IN IF ~iv.ok \/ ~ciphertext.ok THEN Failure
       ELSE subtleDecrypt(key, iv.val, ciphertext.val)

\* decryptMessage(sharedKey, ct_b64, iv_b64)
decryptText(key, ct_b64, iv_b64) ==
    LET plain == DecryptedBytes(key, ct_b64, iv_b64)
    IN IF plain.ok THEN Returned(arrayBufferToText(plain.val)) ELSE Failure

\* decryptFile(sharedKey, ct_b64, iv_b64, type): the bytes of the Blob
decryptFile(key, ct_b64, iv_b64) == DecryptedBytes(key, ct_b64, iv_b64)

\* new Uint8Array(12)
NonceLen == 12

\* the 12 bytes getRandomValues wrote, by the draw d
Nonce(d) == [i \in 1..NonceLen |-> IF i = 1 THEN d ELSE (37 * d * i) % 256]
NonceDraws == 1..MaxNonce

\* texts: "a", "hi", U+00E9 U+20AC, the pair U+1F600, a high surrogate alone, U+FEFF "a"
CodecTexts == {<<97>>, <<104, 105>>, <<233, 8364>>, <<55357, 56832>>, <<55296>>,
               <<65279, 97>>}

\* file contents
CodecFiles == {<<>>, <<0>>, <<255, 0, 128>>}

NoRead == [entry |-> 0, field |-> "", changed |-> FALSE, sameBytes |-> FALSE,
           result |-> Failure]

\* the bit b of the character at position pos of text is flipped
FlipBit(text, pos, b) ==
    [text EXCEPT ![pos] = IF (text[pos] \div (2 ^ b)) % 2 = 1 THEN text[pos] - 2 ^ b
                          ELSE text[pos] + 2 ^ b]

\* handleSendMessage: encryptMessage(sharedKey, text); the nonce is drawn in
\* the call
EncryptTextCall(plaintext, d) ==
    /\ app = "Codec"
    /\ Len(cdEntries) < MaxEntries
    /\ cdEntries' = Append(cdEntries,
                       [kind |-> "text", payload |-> plaintext, drew |-> Nonce(d),
                        out |-> encryptText(cdKey, plaintext, Nonce(d))])
    /\ UNCHANGED <<envVars, chatVars, windowVars, idVars, feedVars, resolveVars, pageVars,
                   keyVars, authVars, sendVars, evictVars, uiVars, cdKey, cdRead>>

\* handleFileUpload: encryptFile(sharedKey, file)
EncryptFileCall(buffer, d) ==
    /\ app = "Codec"
    /\ Len(cdEntries) < MaxEntries
    /\ cdEntries' = Append(cdEntries,
                       [kind |-> "file", payload |-> buffer, drew |-> Nonce(d),
                        out |-> encryptFile(cdKey, buffer, Nonce(d))])
    /\ UNCHANGED <<envVars, chatVars, windowVars, idVars, feedVars, resolveVars, pageVars,
                   keyVars, authVars, sendVars, evictVars, uiVars, cdKey, cdRead>>

\* decryptMessage or decryptFile on the fields ct and iv of an entry
Decrypted(kind, ct, iv) ==
    IF kind = "text" THEN decryptText(cdKey, ct, iv) ELSE decryptFile(cdKey, ct, iv)

\* MessageItem decrypts entry e as it was written
DecryptEntry(e) ==
    /\ app = "Codec"
    /\ cdRead = NoRead
    /\ e \in DOMAIN cdEntries
    /\ cdRead' = [entry |-> e, field |-> "", changed |-> FALSE, sameBytes |-> TRUE,
                  result |-> Decrypted(cdEntries[e].kind, cdEntries[e].out.ct,
                                       cdEntries[e].out.iv)]
    /\ UNCHANGED <<envVars, chatVars, windowVars, idVars, feedVars, resolveVars, pageVars,
                   keyVars, authVars, sendVars, evictVars, uiVars, cdKey, cdEntries>>

\* MessageItem decrypts entry e after one bit of its field ct or iv was
\* changed in the store
DecryptTampered(e, field, pos, b) ==
    /\ app = "Codec"
    /\ cdRead = NoRead
    /\ e \in DOMAIN cdEntries
    /\ LET out == cdEntries[e].out
           ct == IF field = "ct" THEN FlipBit(out.ct, pos, b) ELSE out.ct
           iv == IF field = "iv" THEN FlipBit(out.iv, pos, b) ELSE out.iv
       IN /\ pos \in 1..Len(IF field = "ct" THEN out.ct ELSE out.iv)
          /\ cdRead' = [entry |-> e, field |-> field, changed |-> TRUE,
                        sameBytes |-> /\ b64ToArrayBuffer(ct) = b64ToArrayBuffer(out.ct)
                                      /\ b64ToArrayBuffer(iv) = b64ToArrayBuffer(out.iv),
                        result |-> Decrypted(cdEntries[e].kind, ct, iv)]
    /\ UNCHANGED <<envVars, chatVars, windowVars, idVars, feedVars, resolveVars, pageVars,
                   keyVars, authVars, sendVars, evictVars, uiVars, cdKey, cdEntries>>

\* ------------------------------------------------------------------------
\* Auth.tsx, App.tsx, userCache.ts: signup, login and the stores they write
\* ------------------------------------------------------------------------
Browsers == {1, 2}

Dave == <<100, 97, 118, 101>>
\* what is typed into the username field: "dave", "d", "d:ve"
AuthUsernames == {Dave, <<100>>, <<100, 58, 118, 101>>}
AuthNames == {Trim(u) : u \in AuthUsernames}

\* what is typed into the password field: "pw1234", "pw5678", "pw"
Pw1 == <<112, 119, 49, 50, 51, 52>>
Pw2 == <<112, 119, 53, 54, 55, 56>>
AuthPasswords == {Pw1, Pw2, <<112, 119>>}

\* validateUsername(username).valid
validateUsername(username) ==
    LET trimmed == Trim(username)
    IN /\ Len(trimmed) >= 3
       /\ Len(trimmed) <= 20
       /\ IsValidUsername(trimmed)

\* validatePassword(password).valid
validatePassword(password) == Len(password) >= 6

\* key material as a store holds it: the exported JWK of a private key, or
\* the AES ciphertext of that JWK under a password
NoKeyMaterial == [form |-> "none", pw |-> EmptyStr, priv |-> NoKey]
Jwk(priv) == [form |-> "jwk", pw |-> EmptyStr, priv |-> priv]

\* CryptoJS.AES.encrypt(JSON.stringify(privJwk), password).toString()
encryptPrivateKey(privJwk, password) ==
    [form |-> "wrapped", pw |-> password, priv |-> privJwk.priv]

\* the JWK, or NoKeyMaterial for null: a wrong password decrypts to bytes
\* that JSON.parse refuses
decryptPrivateKey(encrypted, password) ==
    IF encrypted.form = "wrapped" /\ encrypted.pw = password THEN Jwk(encrypted.priv)
    ELSE NoKeyMaterial

\* the private key generateKeys() hands to the c-th call: no two calls get
\* the same key pair
NewPrivKey(c) == 6 + c

\* a user record; NoUser is null
NoUser == [pubKey |-> NoKey, encryptedPrivKey |-> NoKeyMaterial]

\* gun.get('users').get(username).put({pubKey: JSON.stringify(pubKey), privKey})
createUser(node, username, pubKey, privKey) ==
    [node EXCEPT ![username] = [pubKey |-> JSONstringify(pubKey), privKey |-> privKey]]

\* what checkUserExists can resolve with: the entry, or undefined when the
\* wait of 1500 ms ends before the entry has reached this replica
CheckOutcomes(username) == {usersNode[username], Undefined}

\* normalizeGunUser(user): the public key is parsed back from its JSON text
normalizeGunUser(user) ==
    IF user = Undefined THEN NoUser
    ELSE IF user.pubKey.val = NoKey \/ user.privKey.form = "none" THEN NoUser
    ELSE [pubKey |-> user.pubKey.val, encryptedPrivKey |-> user.privKey]

\* localStorage dchat_user_* of one browser, as the list of its records in
\* the order of their updatedAt, oldest first
CacheWithout(list, username) == SelectSeq(list, LAMBDA r : r.username # username)
CacheSet(list, record) == Append(CacheWithout(list, record.username), record)

\* loadUserFromCache(username)
loadUserFromCache(list, username) ==
    IF \E i \in 1..Len(list) : list[i].username = username
    THEN LET r == list[CHOOSE i \in 1..Len(list) : list[i].username = username]
         IN [pubKey |-> r.pubKey, encryptedPrivKey |-> r.encryptedPrivKey]
    ELSE NoUser

\* saveUserToCache(username, pubKey, encryptedPrivKey): the records afterwards
\* and whether the call threw. On a quota error the oldest record is removed
\* and the write retried; retryOk tells whether the retry found room.
saveUserToCache(list, username, pubKey, encryptedPrivKey, retryOk) ==
    LET record == [username |-> username, pubKey |-> pubKey,
                   encryptedPrivKey |-> encryptedPrivKey]
    IN IF storageFault = "none"
       THEN [cache |-> CacheSet(list, record), threw |-> FALSE]
       ELSE IF storageFault = "quota" /\ Len(list) > 0
       THEN IF retryOk THEN [cache |-> CacheSet(Tail(list), record), threw |-> FALSE]
            ELSE [cache |-> Tail(list), threw |-> TRUE]
       ELSE [cache |-> list, threw |-> TRUE]

\* sessionStorage of one browser; Null is what getItem returns for no item
EmptySession == [currentUser |-> EmptyStr, privKey |-> NoKeyMaterial]

\* the browser has no handleSubmit call in flight (the button is disabled
\* while loading)
FormIdle(b) ==
    \A c \in DOMAIN authCalls : authCalls[c].browser = b => authCalls[c].pc = "done"

Finished(c, result, saveThrew) ==
    [authCalls EXCEPT ![c].pc = "done", ![c].result = result, ![c].saveThrew = saveThrew]

\* App.handleLogin(username, keys): the state, the session item, and the
\* saveKeys() it starts without awaiting
handleLogin(b, username, privJwk) ==
    /\ appUser' = [appUser EXCEPT ![b] = username]
    /\ appKeys' = [appKeys EXCEPT ![b] = privJwk.priv]
    /\ sessionStore' = [sessionStore EXCEPT ![b].currentUser = username]
    /\ savingKeys' = [savingKeys EXCEPT ![b] = privJwk.priv]

\* handleSubmit up to `await checkUserExists`: the validation of the form
AuthSubmit(b, isLogin, username, password) ==
    /\ app = "Auth"
    /\ appUser[b] = EmptyStr
    /\ FormIdle(b)
    /\ IF ~validateUsername(username)
       THEN /\ authStatus' = [authStatus EXCEPT ![b] = "Invalid username."]
            /\ UNCHANGED authCalls
       ELSE IF ~validatePassword(password)
       THEN /\ authStatus' = [authStatus EXCEPT ![b] = "Invalid password."]
            /\ UNCHANGED authCalls
       ELSE /\ authStatus' = [authStatus EXCEPT ![b] = ""]
            /\ authCalls' = Append(authCalls,
                   [browser |-> b, isLogin |-> isLogin, username |-> Trim(username),
                    password |-> password, pc |-> "check", result |-> "",
                    saveThrew |-> FALSE])
    /\ UNCHANGED <<envVars, chatVars, windowVars, idVars, feedVars, resolveVars, pageVars,
                   keyVars, codecVars, sendVars, evictVars, uiVars, storageFault, usersNode, identityCache, sessionStore, appUser,
                   appKeys, savingKeys>>

\* handleSubmit from the answer of checkUserExists on: the whole login
\* branch, and the signup branch up to `await generateKeys()`
AuthChecked(c, userFromGun, retryOk) ==
    /\ app = "Auth"
    /\ c \in DOMAIN authCalls
    /\ authCalls[c].pc = "check"
    /\ userFromGun \in CheckOutcomes(authCalls[c].username)
    /\ LET b == authCalls[c].browser
           username == authCalls[c].username
           fromGun == normalizeGunUser(userFromGun)
           cachedUser == loadUserFromCache(identityCache[b], username)
           restored == authCalls[c].isLogin /\ fromGun = NoUser /\ cachedUser # NoUser
           normalizedUser == IF restored THEN cachedUser ELSE fromGun
           privJwk == decryptPrivateKey(normalizedUser.encryptedPrivKey,
                                        authCalls[c].password)
           saved == saveUserToCache(identityCache[b], username, normalizedUser.pubKey,
                                    normalizedUser.encryptedPrivKey, retryOk)
       IN IF authCalls[c].isLogin
          THEN /\ usersNode' = IF restored
                               THEN createUser(usersNode, username, cachedUser.pubKey,
                                               cachedUser.encryptedPrivKey)
                               ELSE usersNode
               /\ IF normalizedUser = NoUser \/ privJwk = NoKeyMaterial
                  THEN /\ authStatus' = [authStatus EXCEPT
                                             ![b] = "Invalid username or password."]
                       /\ authCalls' = Finished(c, "invalid", FALSE)
                       /\ UNCHANGED <<identityCache, sessionStore, appUser, appKeys,
                                      savingKeys>>
                  ELSE /\ identityCache' = [identityCache EXCEPT ![b] = saved.cache]
                       /\ authCalls' = Finished(c, "logged in", saved.threw)
                       /\ handleLogin(b, username, privJwk)
                       /\ authStatus' = [authStatus EXCEPT
                              ![b] = IF restored THEN "Account restored from local backup."
                                     ELSE ""]
          ELSE /\ IF fromGun # NoUser
                  THEN /\ authStatus' = [authStatus EXCEPT ![b] = "Username already taken."]
                       /\ authCalls' = Finished(c, "taken", FALSE)
                  ELSE /\ authStatus' = [authStatus EXCEPT
                                             ![b] = "Generating cryptographic keys..."]
                       /\ authCalls' = [authCalls EXCEPT ![c].pc = "generate"]
               /\ UNCHANGED <<usersNode, identityCache, sessionStore, appUser, appKeys,
                              savingKeys>>
    /\ UNCHANGED <<envVars, chatVars, windowVars, idVars, feedVars, resolveVars, pageVars,
                   keyVars, codecVars, sendVars, evictVars, uiVars, storageFault>>

\* the signup branch once the keys are generated and exported: createUser,
\* saveUserToCache, the status line
AuthCreate(c, retryOk) ==
    /\ app = "Auth"
    /\ c \in DOMAIN authCalls
    /\ authCalls[c].pc = "generate"
    /\ LET b == authCalls[c].browser
           username == authCalls[c].username
           privJwk == Jwk(NewPrivKey(c))
           pubJwk == PubOf(NewPrivKey(c))
           encryptedPriv == encryptPrivateKey(privJwk, authCalls[c].password)
           saved == saveUserToCache(identityCache[b], username, pubJwk, encryptedPriv,
                                    retryOk)
       IN /\ usersNode' = createUser(usersNode, username, pubJwk, encryptedPriv)
          /\ identityCache' = [identityCache EXCEPT ![b] = saved.cache]
          /\ authCalls' = Finished(c, "signed up", saved.threw)
          /\ authStatus' = [authStatus EXCEPT ![b] = "Signup successful! Please log in."]
    /\ UNCHANGED <<envVars, chatVars, windowVars, idVars, feedVars, resolveVars, pageVars,
                   keyVars, codecVars, sendVars, evictVars, uiVars, storageFault, sessionStore, appUser, appKeys, savingKeys>>

\* saveKeys() of handleLogin resumes after its awaits
saveKeys(b) ==
    /\ app = "Auth"
    /\ savingKeys[b] # NoKey
    /\ sessionStore' = [sessionStore EXCEPT ![b].privKey = Jwk(savingKeys[b])]
    /\ savingKeys' = [savingKeys EXCEPT ![b] = NoKey]
    /\ UNCHANGED <<envVars, chatVars, windowVars, idVars, feedVars, resolveVars, pageVars,
                   keyVars, codecVars, sendVars, evictVars, uiVars, storageFault, usersNode, identityCache, authCalls, appUser,
                   appKeys, authStatus>>

\* App.handleLogout
\* restoreSession on a page load: the user the App starts with, EmptyStr for
\* the login screen
restoreSession(session) ==
    IF session.currentUser # EmptyStr /\ session.privKey # NoKeyMaterial
    THEN session.currentUser
    ELSE EmptyStr

handleLogout(b) ==
    /\ app = "Auth"
    /\ appUser[b] # EmptyStr
    /\ sessionStore' = [sessionStore EXCEPT ![b] = EmptySession]
    /\ appUser' = [appUser EXCEPT ![b] = EmptyStr]
    /\ appKeys' = [appKeys EXCEPT ![b] = NoKey]
    /\ UNCHANGED <<envVars, chatVars, windowVars, idVars, feedVars, resolveVars, pageVars,
                   keyVars, codecVars, sendVars, evictVars, uiVars, storageFault, usersNode, identityCache, authCalls, savingKeys,
                   authStatus>>

\* the browser's storage fills up, fails, or accepts writes again
StorageChanges(fault) ==
    /\ fault # storageFault
    /\ storageFault' = fault
    /\ UNCHANGED <<envVars, chatVars, windowVars, idVars, feedVars, resolveVars, pageVars,
                   keyVars, codecVars, sendVars, evictVars, uiVars, usersNode, identityCache, sessionStore, authCalls, appUser,
                   appKeys, savingKeys, authStatus>>

\* ------------------------------------------------------------------------
\* userCache.saveMessagesToCache: the whole function, with its cleanup
\* ------------------------------------------------------------------------
\* messageKeys.length > 10
CleanupThreshold == 10

\* a cleanup that removes a record for every two
ToRemove_Half(n) == IF n \div 2 > 1 THEN n \div 2 ELSE 1

\* Math.max(1, Math.floor(keyTimes.length * 0.2))
ToRemove(n) == IF (2 * n) \div 10 > 1 THEN (2 * n) \div 10 ELSE 1

\* Object.keys(storage).filter(...): the keys of the message records in the
\* order the browser enumerates them, which the platform leaves open
RECURSIVE KeysInOrder(_, _)
KeysInOrder(keys, order) ==
    IF keys = {} THEN <<>>
    ELSE LET k == IF order = "ascending"
                  THEN CHOOSE x \in keys : \A y \in keys : x <= y
                  ELSE CHOOSE x \in keys : \A y \in keys : x >= y
         IN <<k>> \o KeysInOrder(keys \ {k}, order)

\* messageKeys.map(k => ({key: k, time: parsed.updatedAt || 0})).sort(by time)
KeyTimes(store, order) ==
    LET listed == KeysInOrder(DOMAIN store, order)
    IN SortByTime([i \in 1..Len(listed) |->
                      [key |-> listed[i], timestamp |-> store[listed[i]]]])

\* the record of every key but the removed ones
Without(store, removed) == [k \in DOMAIN store \ removed |-> store[k]]

\* saveMessagesToCache(chatId, messages) at time `now`: `first` is what the
\* first setItem does ("ok", "quota", "error"), `retry` what the second does
saveMessagesToStorage(store, cacheKey, now, first, retry, order) ==
    IF first = "ok"
    THEN [store |-> Put(store, cacheKey, now), removed |-> {}, retried |-> FALSE,
          wrote |-> TRUE]
    ELSE IF first = "quota" /\ Cardinality(DOMAIN store) > CleanupThreshold
    THEN LET keyTimes == KeyTimes(store, order)
             toRemove == ToRemove(Len(keyTimes))
             removed == {keyTimes[i].key : i \in 1..toRemove}
             left == Without(store, removed)
         IN [store |-> IF retry = "ok" THEN Put(left, cacheKey, now) ELSE left,
             removed |-> removed, retried |-> TRUE, wrote |-> retry = "ok"]
    ELSE [store |-> store, removed |-> {}, retried |-> FALSE, wrote |-> FALSE]

NoCall == [key |-> 0]

\* the stores the calls are made on: n records whose updatedAt rise with the
\* key, fall with it, are all equal, or are mixed with some that do not parse
\* (read as 0)
StorePatterns == {"rising", "falling", "equal", "mixed"}
UpdatedAt(pattern, k) ==
    IF pattern = "rising" THEN k
    ELSE IF pattern = "falling" THEN MaxRecords + 2 - k
    ELSE IF pattern = "equal" THEN 5
    ELSE (7 * k) % 5

\* Date.now() of a call: later than every record in the store
Now == MaxRecords + 3

\* the save effect or the updater calls saveMessagesToCache for the channel
\* with record key cacheKey
SaveMessagesCall(cacheKey, first, retry, order) ==
    /\ app = "Cache"
    /\ evCall = NoCall
    /\ LET done == saveMessagesToStorage(evStore, cacheKey, Now, first, retry, order)
       IN /\ evStore' = done.store
          /\ evCall' = [key |-> cacheKey, before |-> evStore, first |-> first,
                        retry |-> retry, removed |-> done.removed,
                        retried |-> done.retried, wrote |-> done.wrote]
    /\ UNCHANGED <<envVars, chatVars, windowVars, idVars, feedVars, resolveVars, pageVars,
                   keyVars, authVars, codecVars, sendVars, uiVars>>

\* ------------------------------------------------------------------------
\* Specifications
\* ------------------------------------------------------------------------
InitClient ==
    /\ chatNode = <<>>
    /\ mounted = FALSE
    /\ contacts = <<>>
    /\ currentChat = NoChat
    /\ messages = <<>>
    /\ renderedMessageKeys = {}
    /\ sharedKeysRef = EmptyMap
    /\ subscribed = EmptyStr
    /\ decryptedText = EmptyMap
    /\ needProc = {}
    /\ noKeyFor = {}
    /\ msgCache = EmptyMap
    /\ newChatStatus = ""
    /\ lastChatId = EmptyStr
    /\ contact = NoContact
    /\ sharedKey = NoKey
    /\ deriving = EmptyStr
    /\ cwMessages = <<>>
    /\ cwListening = 0
    /\ messageMap = [i \in 1..MaxSubs |-> FreeSub]
    /\ inflight = {}
    /\ fromCache = {}
    /\ redelivered = "none"

\* no lookup is running
InitResolveIdle ==
    /\ gun = TRUE
    /\ pubKeyNode = Undefined
    /\ rsPhase = "idle"
    /\ rsI = 0
    /\ rsDelayMs = InitialDelayMs
    /\ rsResult = NotReturned
    /\ rsOpen = {}
    /\ rsDone = {}
    /\ rsLog = <<>>
    /\ rsLate = FALSE
    /\ rsTimers = <<>>
    /\ rsWaits = <<>>

InitPage ==
    /\ userChatObjs = EmptyMap
    /\ modalStatus = ""
    /\ sbContacts = <<>>

InitKeys ==
    /\ keyCalls = <<>>
    /\ dirReads = 0
    /\ agreements = 0

\* nobody has signed up in this browser session; storage accepts writes
InitAuthIdle ==
    /\ storageFault = "none"
    /\ usersNode = [n \in AuthNames |-> Undefined]
    /\ identityCache = [b \in Browsers |-> <<>>]
    /\ sessionStore = [b \in Browsers |-> EmptySession]
    /\ authCalls = <<>>
    /\ appUser = [b \in Browsers |-> EmptyStr]
    /\ appKeys = [b \in Browsers |-> NoKey]
    /\ savingKeys = [b \in Browsers |-> NoKey]
    /\ authStatus = [b \in Browsers |-> ""]

\* nothing has been encrypted
InitCodecIdle ==
    /\ cdKey = NoKey
    /\ cdEntries = <<>>
    /\ cdRead = NoRead

\* no send has been invoked
InitSendIdle == sends = <<>>

\* no message record is stored and no save was made
InitEvictIdle == evStore = <<>> /\ evCall = NoCall

\* nothing is typed, no banner is shown
InitUiIdle ==
    /\ inputMsg = NoText
    /\ errorMessage = NoError
    /\ errTimers = <<>>
    /\ clock = 0
    /\ errShownAt = 0

InitServices ==
    /\ InitResolveIdle /\ InitPage /\ InitKeys /\ InitAuthIdle /\ InitCodecIdle
    /\ InitSendIdle /\ InitEvictIdle /\ InitUiIdle

PubKeys == {Directory(u) : u \in Registered} \cup {NoKey}

\* the store holds at most `bound` entries in a run of the model
RoomFor(bound) == Len(chatNode) < bound
KeyBound == IF app = "ChatWindow" THEN MaxWindowKeys ELSE MaxKeys

\* ---- the contact registry of Chat.tsx, from a fresh installation ----
InitRegistry ==
    /\ \E session \in {<<"Chat", Alice>>, <<"Chat", Bob>>, <<"ChatWindow", Alice>>} :
           app = session[1] /\ currentUser = session[2]
    /\ InitClient
    /\ userChats = EmptyMap
    /\ contactsCache = <<>>
    /\ idArgs = <<EmptyStr, EmptyStr>>
    /\ idResult = NotComputed
    /\ InitServices

NextRegistry ==
    \/ Login
    \/ Logout
    \/ \E i \in DOMAIN contacts : SelectContact(i)
    \/ \E val \in UNION {userChats[u] : u \in DOMAIN userChats} : HandleContact(val)
    \/ \E input \in NewChatInputs, fetched \in PubKeys : HandleNewChatSubmit(input, fetched)
    \/ \E w \in Users : PeerStartChat(w)
    \/ \E a \in Users, b \in Users : ForeignLink(a, b)
    \/ \E input \in NewChatInputs, fetched \in PubKeys : WindowNewChatSubmit(input, fetched)
    \/ \E val \in UNION {userChats[u] : u \in DOMAIN userChats} : SidebarContact(val)

SpecRegistry == InitRegistry /\ [][NextRegistry]_vars

\* ---- a returning user: the registry already holds a chat with each other
\*      user (a state SpecRegistry reaches), both clients ----
KnownContacts(u) ==
    IF u = Alice
    THEN <<[username |-> Bob, chatId |-> createChatLinkId(u, Bob)],
           [username |-> Carol, chatId |-> createChatLinkId(u, Carol)]>>
    ELSE <<[username |-> Alice, chatId |-> createChatLinkId(u, Alice)],
           [username |-> Carol, chatId |-> createChatLinkId(u, Carol)]>>

Init ==
    /\ \E session \in {<<"Chat", Alice>>, <<"Chat", Bob>>, <<"ChatWindow", Alice>>} :
           app = session[1] /\ currentUser = session[2]
    /\ InitClient
    /\ userChats = restoreChatLinks(EmptyMap, currentUser, KnownContacts(currentUser))
    /\ contactsCache = KnownContacts(currentUser)
    /\ idArgs = <<EmptyStr, EmptyStr>>
    /\ idResult = NotComputed
    /\ InitServices

\* the message reconcilers: channel selection, feed delivery, sends
Next ==
    \/ Login
    \/ Logout
    \/ \E i \in DOMAIN contacts : SelectContact(i)
    \/ \E k \in DOMAIN chatNode : HandleMessage(k)
    \/ \E fetched \in PubKeys : RoomFor(KeyBound) /\ HandleSendMessage("hi", fetched)
    \/ \E w \in Users : RoomFor(KeyBound) /\ PeerSend(w, "hi")
    \/ \E p \in Users : WindowSelect(p)
    \/ WindowBack
    \/ \E fetched \in PubKeys : WindowDeriveKey(fetched)
    \/ \E k \in DOMAIN chatNode : WindowDeliver(k)
    \/ \E f \in inflight : WindowDecrypted(f)

Spec == Init /\ [][Next]_vars

\* the rendering of entries, with every writer of the store
NextRender ==
    \/ Login
    \/ \E i \in DOMAIN contacts : SelectContact(i)
    \/ \E k \in DOMAIN chatNode : HandleMessage(k)
    \/ \E k \in DOMAIN chatNode, fetched \in PubKeys : ProcessItem(k, fetched)
    \/ \E text \in Texts, fetched \in PubKeys :
            RoomFor(MaxRenderKeys) /\ HandleSendMessage(text, fetched)
    \/ \E w \in Users, text \in Texts : RoomFor(MaxRenderKeys) /\ PeerSend(w, text)
    \/ \E p \in Users, shape \in ForgeShapes : RoomFor(MaxRenderKeys) /\ Forge(p, shape)
    \/ \E p \in Users : WindowSelect(p)
    \/ \E fetched \in PubKeys : WindowDeriveKey(fetched)
    \/ \E k \in DOMAIN chatNode : WindowDeliver(k)
    \/ \E f \in inflight : WindowDecrypted(f)

SpecRender == Init /\ [][NextRender]_vars

\* ---- browser storage that can refuse writes at any time: the Chat client
\*      of a fresh installation, or the Auth screen in two browsers ----
InitStorage ==
    /\ app \in {"Chat", "Auth"}
    /\ currentUser = Alice
    /\ InitClient
    /\ userChats = EmptyMap
    /\ contactsCache = <<>>
    /\ idArgs = <<EmptyStr, EmptyStr>>
    /\ idResult = NotComputed
    /\ InitServices

NextStorage ==
    \/ Login
    \/ \E i \in DOMAIN contacts : SelectContact(i)
    \/ \E val \in UNION {userChats[u] : u \in DOMAIN userChats} : HandleContact(val)
    \/ \E w \in Users : app = "Chat" /\ PeerStartChat(w)
    \/ \E w \in Users : app = "Chat" /\ RoomFor(MaxStoredKeys) /\ PeerSend(w, "hi")
    \/ \E k \in DOMAIN chatNode : HandleMessage(k)
    \/ \E fault \in {"none", "quota", "error"} : StorageChanges(fault)
    \/ \E b \in Browsers, isLogin \in BOOLEAN, username \in AuthUsernames,
          password \in AuthPasswords :
            Len(authCalls) < MaxAuthCalls /\ AuthSubmit(b, isLogin, username, password)
    \/ \E c \in DOMAIN authCalls, userFromGun \in {usersNode[n] : n \in AuthNames} \cup {Undefined},
          retryOk \in BOOLEAN : AuthChecked(c, userFromGun, retryOk)
    \/ \E c \in DOMAIN authCalls, retryOk \in BOOLEAN : AuthCreate(c, retryOk)
    \/ \E b \in Browsers : saveKeys(b)
    \/ \E b \in Browsers : handleLogout(b)

SpecStorage == InitStorage /\ [][NextStorage]_vars

\* ---- a chat started by a peer whose write to the user's channel list can
\*      be lost; the user logs in, and the replica delivers what the user's
\*      client is subscribed to, however often the user logs out ----
Peers == {Alice, Carol}

InitHeal ==
    /\ app = "Chat"
    /\ currentUser = Bob
    /\ InitClient
    /\ userChats = EmptyMap
    /\ contactsCache = <<>>
    /\ idArgs = <<EmptyStr, EmptyStr>>
    /\ idResult = NotComputed
    /\ InitServices

NextHeal ==
    \/ Login
    \/ Logout
    \/ \E val \in UNION {userChats[u] : u \in DOMAIN userChats} : HandleContact(val)
    \/ \E i \in DOMAIN contacts : SelectContact(i)
    \/ \E k \in DOMAIN chatNode : HandleMessage(k)
    \/ \E w \in Peers : PeerStartChat(w)
    \/ \E w \in Peers : PeerStartChatLost(w)
    \/ \E w \in Peers : PeerRestore(w)
    \/ \E w \in Peers : RoomFor(MaxHealKeys) /\ PeerSend(w, "hi")

SpecHeal ==
    /\ InitHeal
    /\ [][NextHeal]_vars
    /\ WF_vars(Login)
    /\ SF_vars(\E val \in UNION {userChats[u] : u \in DOMAIN userChats} : HandleContact(val))
    /\ SF_vars(\E k \in DOMAIN chatNode : HandleMessage(k))


\* Bob's browser with both contacts cached
InitOrder ==
    /\ app = "Chat"
    /\ currentUser = Bob
    /\ InitClient
    /\ userChats = restoreChatLinks(EmptyMap, currentUser, KnownContacts(currentUser))
    /\ contactsCache = KnownContacts(currentUser)
    /\ idArgs = <<EmptyStr, EmptyStr>>
    /\ idResult = NotComputed
    /\ InitServices

\* one session after another, with as many entries as it takes for two of
\* them to carry the same timestamp
NextOrder ==
    \/ Login
    \/ Logout
    \/ \E i \in DOMAIN contacts : SelectContact(i)
    \/ \E k \in DOMAIN chatNode : HandleMessage(k)
    \/ \E w \in Peers : RoomFor(MaxOrderKeys) /\ PeerSend(w, "hi")

SpecOrder == InitOrder /\ [][NextOrder]_vars


\* ---- the send path of ChatWindow.tsx ----
InitWindowSend ==
    /\ app = "ChatWindow"
    /\ currentUser = Alice
    /\ InitClient
    /\ userChats = EmptyMap
    /\ contactsCache = <<>>
    /\ idArgs = <<EmptyStr, EmptyStr>>
    /\ idResult = NotComputed
    /\ InitServices

NextWindowSend ==
    \/ \E p \in Users : WindowSelect(p)
    \/ WindowBack
    \/ \E fetched \in PubKeys : WindowDeriveKey(fetched)
    \/ RoomFor(MaxWindowKeys) /\ WindowSendMessage("hi")
    \/ \E w \in Users : RoomFor(MaxWindowKeys) /\ PeerSend(w, "hi")
    \/ \E k \in DOMAIN chatNode : WindowDeliver(k)
    \/ \E f \in inflight : WindowDecrypted(f)

SpecWindowSend == InitWindowSend /\ [][NextWindowSend]_vars


\* ---- the send path of Chat.tsx, one step per await ----
NextSend ==
    \/ Login
    \/ \E i \in DOMAIN contacts : SelectContact(i)
    \/ \E text \in {NoText, "hi"} : TypeInput(text)
    \/ \E kind \in {"text", "file"} : Len(sends) < MaxSends /\ SendInvoked(kind, "hi")
    \/ \E c \in DOMAIN sends, fetched \in PubKeys, encrypts \in BOOLEAN :
            SendResumed(c, fetched, encrypts)
    \/ \E k \in DOMAIN chatNode : HandleMessage(k)

SpecSend == InitOrder /\ [][NextSend]_vars


\* ---- one save of messages on a store of up to MaxRecords records ----
InitEvict ==
    /\ app = "Cache"
    /\ currentUser = Alice
    /\ InitClient
    /\ userChats = EmptyMap
    /\ contactsCache = <<>>
    /\ idArgs = <<EmptyStr, EmptyStr>>
    /\ idResult = NotComputed
    /\ InitResolveIdle /\ InitPage /\ InitKeys /\ InitAuthIdle /\ InitCodecIdle
    /\ InitSendIdle
    /\ \E n \in 0..MaxRecords, pattern \in StorePatterns :
           evStore = [k \in 1..n |-> UpdatedAt(pattern, k)]
    /\ evCall = NoCall
    /\ InitUiIdle

NextEvict ==
    \E cacheKey \in 1..(Cardinality(DOMAIN evStore) + 1),
       first \in {"ok", "quota", "error"}, retry \in {"ok", "quota"},
       order \in {"ascending", "descending"} :
        SaveMessagesCall(cacheKey, first, retry, order)

SpecEvict == InitEvict /\ [][NextEvict]_vars


\* ---- the MessageItem of every entry gets to run its effect ----
InitShow == Init /\ app = "Chat"

NextShow ==
    \/ Login
    \/ \E i \in DOMAIN contacts : SelectContact(i)
    \/ \E k \in DOMAIN chatNode : HandleMessage(k)
    \/ \E k \in DOMAIN chatNode, fetched \in PubKeys : ProcessItem(k, fetched)
    \/ \E fetched \in PubKeys : RoomFor(MaxShowKeys) /\ HandleSendMessage("hi", fetched)
    \/ \E w \in Users : RoomFor(MaxShowKeys) /\ PeerSend(w, "hi")
    \/ \E w \in Users, shape \in PartialShapes :
            RoomFor(MaxShowKeys) /\ PeerSendPartial(w, shape)

\* React runs the effect of a mounted item
SpecShow ==
    /\ InitShow
    /\ [][NextShow]_vars
    /\ \A k \in 1..MaxShowKeys : WF_vars(\E fetched \in PubKeys : ProcessItem(k, fetched))

\* ---- the entries one user encrypts under the key shared with a partner,
\*      and one decrypt call, of an entry as written or with one bit changed ----
InitCodec ==
    /\ app = "Codec"
    /\ currentUser = Alice
    /\ InitClient
    /\ userChats = EmptyMap
    /\ contactsCache = <<>>
    /\ idArgs = <<EmptyStr, EmptyStr>>
    /\ idResult = NotComputed
    /\ InitResolveIdle /\ InitPage /\ InitKeys /\ InitAuthIdle /\ InitSendIdle
    /\ InitEvictIdle
    /\ InitUiIdle
    /\ cdKey \in {deriveSharedKey(PrivKey(Alice), Directory(Bob)),
                  deriveSharedKey(PrivKey(Alice), Directory(Carol))}
    /\ cdEntries = <<>>
    /\ cdRead = NoRead

NextCodec ==
    \/ \E plaintext \in CodecTexts, d \in NonceDraws : EncryptTextCall(plaintext, d)
    \/ \E buffer \in CodecFiles, d \in NonceDraws : EncryptFileCall(buffer, d)
    \/ \E e \in DOMAIN cdEntries : DecryptEntry(e)
    \/ \E e \in DOMAIN cdEntries, field \in {"ct", "iv"} :
          \E pos \in 1..Len(cdEntries[e].out[field]), b \in 0..7 :
              DecryptTampered(e, field, pos, b)

SpecCodec == InitCodec /\ [][NextCodec]_vars

\* ---- one call of fetchPartnerPubKey against a store that may answer late,
\*      answer with nothing, or never answer; timers always fire ----
NodeValues == {Undefined, Null, Str(0), Str(-1), JSONstringify(Directory(Bob))}

InitResolve ==
    /\ app = "Chat"
    /\ currentUser = Alice
    /\ InitClient
    /\ userChats = EmptyMap
    /\ contactsCache = <<>>
    /\ idArgs = <<EmptyStr, EmptyStr>>
    /\ idResult = NotComputed
    /\ gun \in BOOLEAN
    /\ pubKeyNode \in NodeValues
    /\ rsPhase = "called"
    /\ rsI = 0
    /\ rsDelayMs = InitialDelayMs
    /\ rsResult = NotReturned
    /\ rsOpen = {}
    /\ rsDone = {}
    /\ rsLog = <<>>
    /\ rsLate = FALSE
    /\ rsTimers = <<>>
    /\ rsWaits = <<>>
    /\ InitPage
    /\ InitKeys
    /\ InitAuthIdle
    /\ InitCodecIdle
    /\ InitSendIdle
    /\ InitEvictIdle
    /\ InitUiIdle

NextResolve ==
    \/ \E threw \in BOOLEAN : ResolveBegin(threw)
    \/ AttemptTimeout
    \/ \E a \in rsOpen, res \in StoreReads : StoreReply(a, res)
    \/ \E threw \in BOOLEAN : BackoffElapsed(threw)

SpecResolve ==
    /\ InitResolve
    /\ [][NextResolve]_vars
    /\ WF_vars(\E threw \in BOOLEAN : ResolveBegin(threw))
    /\ WF_vars(AttemptTimeout)
    /\ WF_vars(\E threw \in BOOLEAN : BackoffElapsed(threw))

\* ---- the getSharedKey calls of one session of alice ----
InitKeyCache ==
    /\ app = "Chat"
    /\ currentUser = Alice
    /\ InitClient
    /\ userChats = EmptyMap
    /\ contactsCache = <<>>
    /\ idArgs = <<EmptyStr, EmptyStr>>
    /\ idResult = NotComputed
    /\ InitServices

NextKeyCache ==
    \/ Login
    \/ \E p \in Others : Len(keyCalls) < MaxCalls /\ KeyCall(p)
    \/ \E c \in DOMAIN keyCalls, fetched \in PubKeys : KeyFetched(c, fetched)
    \/ \E c \in DOMAIN keyCalls : KeyDerived(c)

SpecKeyCache == InitKeyCache /\ [][NextKeyCache]_vars

\* ---- the identifier functions on arbitrary strings ----
InitId ==
    /\ app = "Chat"
    /\ currentUser = Alice
    /\ InitClient
    /\ userChats = EmptyMap
    /\ contactsCache = <<>>
    /\ idArgs \in Names \X Names
    /\ idResult = NotComputed
    /\ InitServices

NextId == ComputeIds

SpecId == InitId /\ [][NextId]_vars


\* ---- sends that fail, with the time passing ----
NextFail ==
    \/ Login
    \/ \E i \in DOMAIN contacts : SelectContact(i)
    \/ \E text \in {NoText, "hi"} : TypeInput(text)
    \/ \E kind \in {"text", "file"} : Len(sends) < MaxSends /\ SendInvoked(kind, "hi")
    \/ \E c \in DOMAIN sends, fetched \in PubKeys, encrypts \in BOOLEAN :
            SendResumed(c, fetched, encrypts)
    \/ Tick
    \/ ErrorTimerFires

SpecFail == InitOrder /\ [][NextFail]_vars


\* ---- a feed that delivers parts of entries before the entries ----
NextPartial ==
    \/ Login
    \/ \E i \in DOMAIN contacts : SelectContact(i)
    \/ \E w \in Users : RoomFor(MaxPartialKeys) /\ PeerSend(w, "hi")
    \/ \E k \in DOMAIN chatNode : HandleMessage(k)
    \/ \E k \in DOMAIN chatNode, part \in PartialDeliveries : HandlePartial(k, part)

SpecPartial == InitOrder /\ [][NextPartial]_vars

\* ------------------------------------------------------------------------
\* Channel identifiers (SpecId)
\* ------------------------------------------------------------------------
IdsComputed == idResult # NotComputed

\* C8: for all usernames A and B with A different from B, the identifier
\* computed for (A, B) equals the one computed for (B, A), for createChatLink
\* and for gunService.createChat alike.
C8_ChannelIdCommutative ==
    (IdsComputed /\ idArgs[1] # idArgs[2]) =>
        /\ idResult.link = idResult.linkSwapped
        /\ idResult.chat = idResult.chatSwapped

\* the two names differ, the sort has to swap them, and an id was returned
C8_Witness ==
    /\ IdsComputed
    /\ StrLess(idArgs[2], idArgs[1])
    /\ idResult.link # EmptyStr
    /\ idResult.link = JoinColon(<<idArgs[2], idArgs[1]>>)

\* C9: for usernames made only of letters, digits, underscore and hyphen the
\* identifier is the two names sorted and joined by ':', computing it again
\* gives the same value, and no other unordered pair of such usernames gets
\* the same identifier.
C9_ChannelIdSortedJoinCollisionFree ==
    (IdsComputed /\ IsValidUsername(idArgs[1]) /\ IsValidUsername(idArgs[2])) =>
        /\ idResult.link = JoinColon(SortPair(idArgs[1], idArgs[2]))
        /\ idResult.link = createChatLinkId(idArgs[1], idArgs[2])
        /\ \A c \in Names, d \in Names :
              (IsValidUsername(c) /\ IsValidUsername(d)
                 /\ createChatLinkId(c, d) = idResult.link)
                => {c, d} = {idArgs[1], idArgs[2]}

\* two different valid names, one a prefix of the other and one with a hyphen
C9_Witness ==
    /\ IdsComputed
    /\ IsValidUsername(idArgs[1]) /\ IsValidUsername(idArgs[2])
    /\ idArgs[1] = <<97, 45>>
    /\ idArgs[2] = <<97>>
    /\ idResult.link = <<97, 58, 97, 45>>

\* ------------------------------------------------------------------------
\* Starting a chat (SpecRegistry)
\* ------------------------------------------------------------------------
AliceBob == Alice \o Colon \o Bob

\* a step in which alice's handleNewChatSubmit("bob") runs to its end
StartChatAliceBobSucceeds ==
    /\ currentUser = Alice
    /\ \E fetched \in PubKeys : HandleNewChatSubmit(Bob, fetched)
    /\ newChatStatus' = ""

\* C10: after startChat(alice, bob) succeeds the returned id is "alice:bob",
\* that id is in the remote channel list of alice and of bob, alice's registry
\* holds a contact for bob with that id, and that channel is the active one.
C10_StartChatPostcondition ==
    [][StartChatAliceBobSucceeds =>
          /\ lastChatId' = AliceBob
          /\ AliceBob \in Get(userChats', Alice, {})
          /\ AliceBob \in Get(userChats', Bob, {})
          /\ \E i \in 1..Len(contacts') :
                contacts'[i] = [username |-> Bob, chatId |-> AliceBob]
          /\ currentChat' = [partner |-> Bob, id |-> AliceBob]]_vars

\* ------------------------------------------------------------------------
\* The message reconcilers (Spec)
\* ------------------------------------------------------------------------
NoDuplicateKeys(timeline) ==
    \A i, j \in 1..Len(timeline) : timeline[i].key = timeline[j].key => i = j

IsAscending(timeline) ==
    \A i \in 1..(Len(timeline) - 1) : timeline[i].timestamp <= timeline[i + 1].timestamp

TimestampsOf(timeline) == [i \in 1..Len(timeline) |-> timeline[i].timestamp]
KeySeqOf(timeline) == [i \in 1..Len(timeline) |-> timeline[i].key]

\* C1: after every step the timeline of either client holds at most one entry
\* per entry key, and a delivery on the live feed of a key the timeline
\* already holds (merged earlier from the feed, or loaded from the cache when
\* the channel was opened) leaves the timeline as it was.
C1_OneEntryPerKey ==
    [][/\ NoDuplicateKeys(messages')
       /\ NoDuplicateKeys(cwMessages')
       /\ \A k \in DOMAIN chatNode :
             (HandleMessage(k) /\ k \in KeysOf(messages)) => messages' = messages
       /\ \A k \in DOMAIN chatNode :
             (WindowDeliver(k) /\ k \in KeysOf(messageMap[cwListening].map))
                => cwMessages' = cwMessages]_vars

\* a channel reopened from its cache record got one more entry from the feed,
\* and then the feed delivered the cached key again
C1_Witness ==
    /\ redelivered = "cached"
    /\ Len(messages) = 2
    /\ fromCache # {}
    /\ fromCache # KeysOf(messages)
    /\ NoDuplicateKeys(messages)

C3_NoStaleCallbackEffect ==
    [][/\ \A k \in DOMAIN chatNode :
             (HandleMessage(k) /\ chatNode[k].chan # currentChat.id)
                => messages' = messages
       /\ \A f \in inflight :
             (WindowDecrypted(f) /\ f.inst # cwListening
                /\ messageMap[f.inst].chan # contact.chatId)
                => cwMessages' = cwMessages]_vars

\* the timeline holds entries of the active channel and entries of another one
MixedTimeline ==
    \E i, j \in 1..Len(messages) :
        /\ messages[i].chan = currentChat.id
        /\ messages[j].chan # currentChat.id

\* C4: while a channel is selected in Chat.tsx the feed subscribed is the one
\* of that channel, every key loaded from its cache record is in the timeline
\* and marked as seen, every timeline key is marked as seen, and the timeline
\* never mixes entries of another channel with entries of the selected one.
C4_SelectedChannelTimeline ==
    (app = "Chat" /\ currentChat # NoChat) =>
        /\ subscribed = currentChat.id
        /\ fromCache \subseteq KeysOf(messages)
        /\ KeysOf(messages) \subseteq renderedMessageKeys
        /\ ~MixedTimeline

\* ------------------------------------------------------------------------
\* Rendering of entries (SpecRender)
\* ------------------------------------------------------------------------
\* the items of the Chat timeline whose process() has run
Processed == DOMAIN decryptedText \ needProc

HasCiphertext(msg) == msg.ct # NoCt /\ msg.iv # NoIv

\* the key the viewer shares with the user MessageItem asks getSharedKey for
KeyForItem(msg) ==
    deriveSharedKey(PrivKey(currentUser),
                    Directory(IF msg.sender = currentUser THEN currentChat.partner
                              ELSE msg.sender))

\* does the entry, taken by itself, fail to decrypt in Chat.tsx?
FailsInChat(k) ==
    LET msg == EntryOf(messages, k)
    IN \/ k \in noKeyFor
       \/ /\ ~(msg.sender = currentUser /\ msg.text # NoText)
          /\ HasCiphertext(msg)
          /\ decryptMessage(KeyForItem(msg), msg.ct, msg.iv) = DecryptionFailure

\* what a ChatWindow subscription holding `key` shows for the stored entry
WindowShown(entry, key) ==
    IF HasCiphertext(entry)
    THEN IF decryptMessage(key, entry.ct, entry.iv) = DecryptionFailure
         THEN SentinelWindow
         ELSE decryptMessage(key, entry.ct, entry.iv)
    ELSE IF entry.text # NoText /\ entry.sender = currentUser THEN entry.text
    ELSE NoText

\* the keys a ChatWindow subscription of the viewer can hold
WindowKeys == {deriveSharedKey(PrivKey(currentUser), Directory(u)) : u \in Users}

\* C5: an item of the Chat timeline shows the failure sentinel exactly when
\* that entry itself cannot be decrypted (its partner key was not resolved,
\* or its ciphertext does not authenticate under the key); every other item
\* shows what its own processing yields and every timeline entry keeps its
\* item. In ChatWindow every entry a subscription has handled is in its Map
\* with the text its own decryption yields, the sentinel only on failure.
C5_FailureStaysLocal ==
    /\ DOMAIN decryptedText = KeysOf(messages)
    /\ KeysOf(messages) = renderedMessageKeys
    /\ \A k \in Processed : (decryptedText[k] = SentinelChat) <=> FailsInChat(k)
    /\ \A k \in Processed :
          LET msg == EntryOf(messages, k)
          IN (~FailsInChat(k) /\ HasCiphertext(msg)
                /\ ~(msg.sender = currentUser /\ msg.text # NoText))
               => decryptedText[k] = decryptMessage(KeyForItem(msg), msg.ct, msg.iv)
    /\ \A inst \in DOMAIN messageMap :
          \A i \in 1..Len(messageMap[inst].map) :
             LET shown == messageMap[inst].map[i]
             IN shown.text = WindowShown(chatNode[shown.key], messageMap[inst].key)
    /\ \A i \in 1..Len(cwMessages) :
          \E key \in WindowKeys :
             cwMessages[i].text = WindowShown(chatNode[cwMessages[i].key], key)

\* two processed items, one showing the sentinel and one its plaintext
C5_Witness ==
    /\ app = "Chat"
    /\ \E k, j \in Processed :
          /\ decryptedText[k] = SentinelChat
          /\ k \notin noKeyFor
          /\ decryptedText[j] \in Texts
          /\ EntryOf(messages, j).sender # currentUser

\* C6: an item shows the plaintext field of its entry only if the viewer
\* wrote that entry; the plaintext field of an entry written by anyone else
\* is displayed only when it is also what decrypting the entry's ciphertext
\* yields.
C6_EchoOnlyOwnEntries ==
    /\ \A k \in Processed :
          LET msg == EntryOf(messages, k)
          IN (msg.author # currentUser /\ msg.text # NoText
                /\ decryptedText[k] = msg.text)
               => /\ HasCiphertext(msg)
                  /\ decryptMessage(KeyForItem(msg), msg.ct, msg.iv) = msg.text
    /\ \A i \in 1..Len(cwMessages) :
          LET stored == chatNode[cwMessages[i].key]
          IN (stored.author # currentUser /\ stored.text # NoText
                /\ cwMessages[i].text = stored.text)
               => HasCiphertext(stored)

EmptyReads(log) == \A j \in 1..Len(log) : ~IsNonEmptyRead(log[j].res)

\* C11: resolve returns the key of the first attempt whose read is non-empty
\* and starts no attempt after it; it returns not-found exactly when 5
\* consecutive attempts each timed out or read an empty value, never after
\* fewer than 5 attempts.
C11_ResolveFirstKeyOrFiveAttempts ==
    rsPhase = "returned" =>
        /\ Len(rsLog) <= Retries
        /\ rsDone = 1..Len(rsLog)
        /\ EmptyReads(SubSeq(rsLog, 1, Len(rsLog) - 1))
        /\ rsResult # Null =>
              /\ Len(rsLog) >= 1
              /\ IsNonEmptyRead(rsLog[Len(rsLog)].res)
              /\ rsResult = ParsedKey(rsLog[Len(rsLog)].res)
        /\ rsResult = Null <=> (Len(rsLog) = Retries /\ EmptyReads(rsLog))

\* C12: every call of resolve returns, also when the store never answers;
\* each attempt completes exactly once (the log holds attempts 1, 2, ... once
\* each, resolved by the reply, the timer or the throw), and a reply that
\* arrives after its attempt completed changes nothing of the call.
C12_ResolveTerminates ==
    /\ <>(rsPhase = "returned")
    /\ [](\A j \in 1..Len(rsLog) : rsLog[j].attempt = j)
    /\ [][\A a \in rsOpen \cap rsDone :
            a \notin rsOpen' =>
                UNCHANGED <<rsPhase, rsI, rsDelayMs, rsResult, rsDone, rsLog>>]_vars

\* attempt 1 timed out, its reply arrived later, and a later attempt returned
\* the key
C12_Witness ==
    /\ rsPhase = "returned"
    /\ rsLate
    /\ rsResult = Obj(Directory(Bob))
    /\ Len(rsLog) >= 2
    /\ rsLog[1].by = "timer"
    /\ 1 \notin rsOpen

\* ------------------------------------------------------------------------
\* Starting a chat (SpecRegistry)
\* ------------------------------------------------------------------------
\* what a failed startChat must leave alone: both remote channel lists, the
\* registry and its cache, and the active channel
StartChatState ==
    <<userChats, userChatObjs, contacts, contactsCache, sbContacts, currentChat, contact>>

NameRefused(name) == name = EmptyStr \/ name = currentUser \/ ~IsValidUsername(name)

\* what each dialog checks before the lookup: handleNewChatSubmit tests the
\* character set, NewChatModal.handleSubmit does not
NameRefusedBy(client, name) ==
    IF client = "Chat" THEN NameRefused(name)
    ELSE name = EmptyStr \/ name = currentUser

StartChatSubmit(input, fetched) ==
    HandleNewChatSubmit(input, fetched) \/ WindowNewChatSubmit(input, fetched)

\* C13 as stated: if the key cannot be resolved, or the name is empty, the
\* current user or outside the allowed character set, startChat writes to no
\* channel list, adds no contact to the registry or its cache and keeps the
\* active channel.
C13_StartChatFailsCleanly ==
    [][\A input \in NewChatInputs, fetched \in PubKeys :
          (/\ StartChatSubmit(input, fetched)
           /\ (fetched = NoKey \/ NameRefused(Trim(input))))
          => UNCHANGED StartChatState]_vars

\* C13 amended: the same, where the character set counts only for the dialog
\* of Chat.tsx; NewChatModal refuses the empty name, the own name and a name
\* without a published key.
C13_StartChatFailsCleanlyPerClient ==
    [][\A input \in NewChatInputs, fetched \in PubKeys :
          (/\ StartChatSubmit(input, fetched)
           /\ (fetched = NoKey \/ NameRefusedBy(app, Trim(input))))
          => UNCHANGED StartChatState]_vars

\* a chat with bob is open and a later request has failed with not-found
C13_Witness ==
    /\ app = "Chat"
    /\ newChatStatus = "User not found"
    /\ currentChat.partner = Bob
    /\ HasUsername(contacts, Bob)
    /\ contactsCache = contacts

\* ------------------------------------------------------------------------
\* Session Key Cache (SpecKeyCache)
\* ------------------------------------------------------------------------
CallsFor(p) == {c \in DOMAIN keyCalls : keyCalls[c].partner = p}
Succeeded(p) == \E c \in CallsFor(p) : keyCalls[c].at = "returned"
Failed(p) == \E c \in CallsFor(p) : keyCalls[c].at = "threw"
NewCall == keyCalls'[Len(keyCalls')]

\* C14: once a getOrDerive(p) has succeeded in the session, every later
\* getOrDerive(p) returns at once the key the earlier calls returned, with no
\* directory read and no key agreement.
C14_HitReturnsSameKeyWithoutLookup ==
    [][\A p \in Others :
          (KeyCall(p) /\ Succeeded(p)) =>
              /\ NewCall.at = "returned"
              /\ \A c \in CallsFor(p) : keyCalls[c].at = "returned" => NewCall.key = keyCalls[c].key
              /\ dirReads' = dirReads
              /\ agreements' = agreements]_vars

\* one lookup and one agreement served three calls for bob
C14_Witness ==
    /\ Len(keyCalls) = 3
    /\ \A c \in 1..3 : keyCalls[c].partner = Bob /\ keyCalls[c].at = "returned"
    /\ keyCalls[3].key = keyCalls[1].key
    /\ dirReads = 1
    /\ agreements = 1

\* C15: when the directory returns not-found for p, getOrDerive(p) fails to
\* its caller and the cache is left as it is; a later getOrDerive(p), no call
\* for p having succeeded, reads the directory again.
C15_NotFoundStoresNothing ==
    [][/\ \A c \in DOMAIN keyCalls :
             KeyFetched(c, NoKey) =>
                 keyCalls'[c].at = "threw" /\ sharedKeysRef' = sharedKeysRef
       /\ \A p \in Others :
             (KeyCall(p) /\ Failed(p) /\ ~Succeeded(p)) =>
                 NewCall.at = "fetch" /\ dirReads' = dirReads + 1]_vars

\* the first call for bob failed with not-found and left no entry, the second
\* looked bob up again and succeeded
C15_Witness ==
    /\ Len(keyCalls) = 2
    /\ keyCalls[1].partner = Bob /\ keyCalls[1].at = "threw"
    /\ keyCalls[2].partner = Bob /\ keyCalls[2].at = "returned" /\ ~keyCalls[2].hit
    /\ dirReads = 2
    /\ DOMAIN sharedKeysRef = {Bob}

SaveThrewIn(c) == ~authCalls[c].saveThrew /\ authCalls'[c].saveThrew

\* the partner a new channel-list entry stands for, EmptyStr if it adds none
NewPartner(val) ==
    LET partner == PartnerOf(val)
    IN IF HasUsername(contacts, partner) \/ HasChatId(contacts, val) THEN EmptyStr
       ELSE partner

\* C17: a failed write to the local durable cache (quota exceeded or any other
\* storage error) never raises out of saving messages or contacts and never
\* prevents a remote entry from being added to the timeline or a remote
\* contact from being added to the registry; a failed write of the identity
\* record never prevents login or signup from completing: the login that
\* failed to save still logs the user in, the signup that failed to save has
\* still published the account and reports success.
C17_CacheWriteFailuresAreSilent ==
    /\ [](~SaveRaises)
    /\ [][/\ \A k \in DOMAIN chatNode :
                (SetItemThrows /\ k \notin renderedMessageKeys /\ HandleMessage(k))
                    => k \in KeysOf(messages')
          /\ \A val \in UNION {userChats[u] : u \in DOMAIN userChats} :
                (SetItemThrows /\ NewPartner(val) # EmptyStr /\ HandleContact(val))
                    => HasUsername(contacts', NewPartner(val))
          /\ \A c \in DOMAIN authCalls :
                SaveThrewIn(c)
                    => IF authCalls[c].isLogin
                       THEN /\ authCalls'[c].result = "logged in"
                            /\ appUser'[authCalls[c].browser] = authCalls[c].username
                       ELSE /\ authCalls'[c].result = "signed up"
                            /\ usersNode'[authCalls[c].username] # Undefined]_vars

\* a remote entry is in the timeline although the cache record of its channel
\* could not be written
C17_Witness ==
    /\ app = "Chat"
    /\ SetItemThrows
    /\ \E k \in KeysOf(messages) :
           /\ k \notin fromCache
           /\ k \notin KeysOf(loadMessagesFromCache(msgCache, subscribed))

\* a login went through although its identity record could not be saved
C17_LoginWitness ==
    \E c \in DOMAIN authCalls :
        /\ authCalls[c].isLogin /\ authCalls[c].saveThrew
        /\ appUser[authCalls[c].browser] = authCalls[c].username

\* ------------------------------------------------------------------------
\* Private key at rest
\* ------------------------------------------------------------------------
\* key material a reader of the store can use without the password
Unwrapped(material) == material.form = "jwk"

\* C18: in every reachable state no persistent store (browser local storage,
\* browser session storage, the replicated store) holds the user's private
\* key in unwrapped form; only the password-encrypted form is ever written.
C18_NoStoreHoldsUnwrappedPrivateKey ==
    /\ \A b \in Browsers : ~Unwrapped(sessionStore[b].privKey)
    /\ \A b \in Browsers : \A i \in DOMAIN identityCache[b] :
           ~Unwrapped(identityCache[b][i].encryptedPrivKey)
    /\ \A n \in AuthNames : usersNode[n] # Undefined => ~Unwrapped(usersNode[n].privKey)

\* the local cache and the replicated store, which do hold only the wrapped form
C18_WrappedInCacheAndDirectory ==
    /\ \A b \in Browsers : \A i \in DOMAIN identityCache[b] :
           identityCache[b][i].encryptedPrivKey.form = "wrapped"
    /\ \A n \in AuthNames : usersNode[n] # Undefined => usersNode[n].privKey.form = "wrapped"

\* ------------------------------------------------------------------------
\* The key directory entry of a username
\* ------------------------------------------------------------------------
Published(n) == usersNode[n] # Undefined

\* the step completes the check of a login call
LoginStep == \E c \in DOMAIN authCalls : authCalls[c].isLogin /\ authCalls[c].pc = "check"
                                         /\ authCalls'[c].pc = "done"

\* C19: once a public key has been published for a username, the directory
\* entry for that username never changes: a signup for a taken username is
\* rejected, also when two signups for the same name run concurrently or when
\* the existence check times out before the entry has replicated, and a login
\* never publishes key material different from the entry already there.
C19_DirectoryEntryImmutable ==
    [][\A n \in AuthNames : Published(n) => usersNode'[n] = usersNode[n]]_vars

\* the login half of it alone
C19_LoginKeepsEntry ==
    [][LoginStep => \A n \in AuthNames : Published(n) => usersNode'[n] = usersNode[n]]_vars

\* ------------------------------------------------------------------------
\* Contact registry: one contact per partner and per channel
\* ------------------------------------------------------------------------
OnePerPartnerAndChannel(list) ==
    \A i \in 1..Len(list), j \in 1..Len(list) :
        i # j => /\ list[i].username # list[j].username
                 /\ list[i].chatId # list[j].chatId

Holds(list, c) == \E i \in 1..Len(list) : list[i] = c

\* C20: in every reachable state the contact registry (the contacts of
\* Chat.tsx, and those of Sidebar) holds at most one contact per partner
\* username and at most one contact per channel id, whatever the order in
\* which cached contacts, remote channel-list entries and new-chat requests
\* arrive; the contacts restored from the cache at mount are the cached ones,
\* and every contact stays in the registry while remote entries are merged in,
\* until logout.
C20_RegistryHoldsEachContactOnce ==
    /\ [](OnePerPartnerAndChannel(contacts) /\ OnePerPartnerAndChannel(sbContacts))
    /\ [][(~mounted /\ mounted') => contacts' = contactsCache]_vars
    /\ [][(mounted /\ mounted')
            => \A i \in 1..Len(contacts) : Holds(contacts', contacts[i])]_vars

\* the registry holds a contact that came from a remote entry of a foreign
\* channel and one started by a new-chat request, and the channel list holds a
\* further channel of a partner who is already in the registry
C20_Witness ==
    /\ mounted
    /\ Len(contacts) >= 2
    /\ lastChatId # EmptyStr
    /\ \E i \in 1..Len(contacts) :
           contacts[i].chatId # createChatLinkId(currentUser, contacts[i].username)
    /\ \E val \in Get(userChats, currentUser, {}) :
           /\ ~HasChatId(contacts, val)
           /\ HasUsername(contacts, PartnerOf(val))

\* ------------------------------------------------------------------------
\* A channel registered on one side only
\* ------------------------------------------------------------------------
\* w's channel list holds the channel with currentUser, currentUser's does not
HalfRegistered(w) ==
    /\ createChatLinkId(w, currentUser) \in Get(userChats, w, {})
    /\ createChatLinkId(w, currentUser) \notin Get(userChats, currentUser, {})

\* the shared channel of w and currentUser holds an entry
Traffic(w) == \E k \in DOMAIN chatNode : chatNode[k].chan = createChatLinkId(w, currentUser)

\* C21: if startChat registered the channel in only one participant's remote
\* channel list, the other participant's contact list eventually contains the
\* channel: the missing link is re-derived once traffic is observed in the
\* shared channel.
C21_MissingLinkHeals ==
    \A w \in Peers :
        (HalfRegistered(w) /\ Traffic(w)) ~> HasChatId(contacts, createChatLinkId(w, currentUser))

\* ------------------------------------------------------------------------
\* Nonces
\* ------------------------------------------------------------------------
\* C22: every call of encryptText and of encryptFile uses a newly generated
\* nonce, so no two entries encrypted under the same shared key carry the
\* same nonce.
C22_NoTwoEntriesShareNonce ==
    \A e \in DOMAIN cdEntries, f \in DOMAIN cdEntries :
        e # f => cdEntries[e].out.iv # cdEntries[f].out.iv

\* C22 as amended: the nonce of every entry is the 12 bytes that
\* getRandomValues drew in the call that encrypted it, for text and for files,
\* so two entries carry the same nonce only if two draws were equal.
C22_EntryCarriesTheDrawOfItsCall ==
    \A e \in DOMAIN cdEntries :
        /\ Len(cdEntries[e].drew) = NonceLen
        /\ b64ToArrayBuffer(cdEntries[e].out.iv) = Returned(cdEntries[e].drew)
        /\ \A f \in DOMAIN cdEntries :
               cdEntries[e].drew # cdEntries[f].drew
                   => cdEntries[e].out.iv # cdEntries[f].out.iv

\* a text and a file were encrypted and the two draws differed
C22_Witness ==
    /\ Len(cdEntries) = 2
    /\ cdEntries[1].kind = "text" /\ cdEntries[2].kind = "file"
    /\ cdEntries[1].drew # cdEntries[2].drew
    /\ cdEntries[1].out.iv # cdEntries[2].out.iv


\* ------------------------------------------------------------------------
\* Round trip and tamper detection
\* ------------------------------------------------------------------------
\* an entry was decrypted as it was written
ReadBack == cdRead.entry # 0 /\ ~cdRead.changed

\* a string of whole code points: every surrogate is one half of a pair
WellFormed(text) ==
    \A i \in 1..Len(text) :
        /\ IsHighSurrogate(text[i]) => i < Len(text) /\ IsLowSurrogate(text[i + 1])
        /\ IsLowSurrogate(text[i]) => i > 1 /\ IsHighSurrogate(text[i - 1])

\* C23: decrypting with K the ciphertext and nonce that encrypting P with K
\* produced returns exactly P, for text and for files, through the base64
\* encoding and decoding of ciphertext and nonce.
C23_RoundTripReturnsPayload ==
    ReadBack => cdRead.result = Returned(cdEntries[cdRead.entry].payload)

\* C23, the part the code keeps: a file comes back byte for byte, and so does
\* a text of whole code points that does not begin with U+FEFF.
C23_RoundTripOfWellFormedPayload ==
    ReadBack =>
        LET e == cdEntries[cdRead.entry]
        IN (e.kind = "file" \/ (WellFormed(e.payload) /\ e.payload[1] # 65279))
               => cdRead.result = Returned(e.payload)

\* the text U+FEFF "a" was encrypted and read back
C23_ByteOrderMarkReadBack ==
    ReadBack /\ cdEntries[cdRead.entry].payload = <<65279, 97>>


\* the entry that was read, and whether it is a text
ReadEntry == cdEntries[cdRead.entry]
TextRead == cdRead.entry # 0 /\ ReadEntry.kind = "text"

\* C24: changing any bit of a valid ciphertext or of its nonce makes
\* decryptText fail with a decryption failure; decryptText never returns a
\* plaintext different from the one that was encrypted.
C24_ChangedEntryFailsToDecrypt ==
    TextRead =>
        /\ cdRead.changed => cdRead.result = Failure
        /\ cdRead.result.ok => cdRead.result.val = ReadEntry.payload

\* C24, the part the code keeps: a change after which ciphertext or nonce
\* decode to other bytes, or no longer decode, makes decryptText and
\* decryptFile fail; a read that succeeds returns what the unchanged entry
\* decrypts to.
C24_ChangedBytesFailToDecrypt ==
    cdRead.entry # 0 =>
        /\ (cdRead.changed /\ ~cdRead.sameBytes) => cdRead.result = Failure
        /\ cdRead.result.ok =>
               cdRead.result = Decrypted(ReadEntry.kind, ReadEntry.out.ct, ReadEntry.out.iv)

\* one bit of the ciphertext of a text was changed, the changed text decodes
\* to the same bytes, and decryptText returned the plaintext
C24_UnusedBitChanged ==
    /\ TextRead
    /\ cdRead.changed /\ cdRead.field = "ct" /\ cdRead.sameBytes
    /\ cdRead.result = Returned(ReadEntry.payload)

\* one bit of the nonce was changed and decryptText failed
C24_NonceChanged ==
    /\ TextRead
    /\ cdRead.changed /\ cdRead.field = "iv" /\ ~cdRead.sameBytes
    /\ cdRead.result = Failure


\* ------------------------------------------------------------------------
\* The durable message record
\* ------------------------------------------------------------------------
\* C25: the durable message record of channel C contains only entries that
\* were delivered on C's feed; switching the active channel from A to B never
\* writes A's timeline into B's record.
C25_RecordHoldsOnlyEntriesOfItsChannel ==
    \A c \in DOMAIN msgCache :
        \A i \in 1..Len(msgCache[c]) : msgCache[c][i].chan = c


\* a delivery on the live feed added an entry to the timeline
MergeStep == (\E k \in DOMAIN chatNode : HandleMessage(k)) /\ messages' # messages

\* a channel is opened from the sidebar
OpenStep == \E i \in DOMAIN contacts : SelectContact(i)

\* C26: while a channel is live and cache writes succeed, after each remote
\* entry has been merged the durable record of that channel equals the
\* in-memory timeline; the record of a channel is written only while that
\* channel is opened or live, and opening a channel shows its record, so
\* reopening it without new traffic shows the same entries in the same order.
C26_RecordEqualsTimelineAfterMerge ==
    [][/\ (MergeStep /\ ~SetItemThrows)
              => loadMessagesFromCache(msgCache', currentChat.id) = messages'
       /\ OpenStep
              => /\ messages' = loadMessagesFromCache(msgCache, currentChat'.id)
                 /\ (~SetItemThrows /\ messages' # <<>>)
                        => loadMessagesFromCache(msgCache', currentChat'.id) = messages'
       /\ \A c \in DOMAIN msgCache :
              (c # currentChat.id /\ c # currentChat'.id) => msgCache'[c] = msgCache[c]
      ]_vars

\* a channel with two merged entries was reopened: the timeline is the
\* record, entry for entry, and every entry of it came from the record
C26_Witness ==
    /\ currentChat # NoChat
    /\ Len(messages) = 2
    /\ loadMessagesFromCache(msgCache, currentChat.id) = messages
    /\ fromCache = KeysOf(messages)


\* ------------------------------------------------------------------------
\* Entries with the same timestamp
\* ------------------------------------------------------------------------
PositionOf(timeline, k) == CHOOSE i \in 1..Len(timeline) : timeline[i].key = k
Before(timeline, a, b) == PositionOf(timeline, a) < PositionOf(timeline, b)
SameTime(timeline, a, b) == EntryOf(timeline, a).timestamp = EntryOf(timeline, b).timestamp

C28_BackoffSchedule ==
    /\ Len(rsWaits) > 0 => rsWaits[1] = 700
    /\ \A i \in 2..Len(rsWaits) :
           LET rounded == (12 * rsWaits[i - 1] + 5) \div 10
           IN /\ rsWaits[i] = IF rounded < 2000 THEN rounded ELSE 2000
              /\ rsWaits[i] >= rsWaits[i - 1]
    /\ \A i \in 1..Len(rsWaits) : rsWaits[i] <= 2000
    /\ \A i \in 1..Len(rsTimers) :
           LET current == IF i <= Len(rsWaits) THEN rsWaits[i] ELSE rsDelayMs
               half == current \div 2
           IN rsTimers[i] = IF half > 900 THEN half ELSE 900

\* every attempt read nothing: five timers were set and five waits made, the
\* last one of 1452 ms
C28_Witness ==
    /\ rsResult = Null
    /\ Len(rsTimers) = 5
    /\ rsWaits = <<700, 840, 1008, 1210, 1452>>


\* ------------------------------------------------------------------------
\* The key of a sent message
\* ------------------------------------------------------------------------
\* the key partner p derives for the channel with currentUser
KeyOfPartner(p) == deriveSharedKey(PrivKey(p), Directory(currentUser))

\* entry k was sent by currentUser and partner p of its channel can decrypt it
ReadableByPartner(k) ==
    \E p \in Others :
        /\ chatNode[k].chan = createChatId(currentUser, p)
        /\ decryptMessage(KeyOfPartner(p), chatNode[k].ct, chatNode[k].iv) = chatNode[k].text

\* C30: in the ChatWindow send path every message written to contact C's
\* channel is encrypted with the key shared with C; after the selected
\* contact changes from A to B, no message is sent to B's channel under A's
\* key while B's key is still being derived.
C30_SentUnderKeyOfItsChannel ==
    \A k \in DOMAIN chatNode :
        (app = "ChatWindow" /\ chatNode[k].author = currentUser) => ReadableByPartner(k)


\* C29: a text or file message is always written to the channel whose
\* partner's shared key encrypted it; if the user switches the active channel
\* while the key for a send is still being resolved, the message is written
\* to the channel that was active when the send was invoked and never to the
\* newly selected channel.
C29_WrittenToChannelOfItsKey ==
    \A c \in DOMAIN sends :
        sends[c].at = "sent" =>
            LET e == chatNode[sends[c].wrote]
                partner == sends[c].chat.partner
            IN /\ e.chan = sends[c].chat.id
               /\ decryptMessage(KeyOfPartner(partner), e.ct, e.iv) = sends[c].text

\* a text and a file were each written after the user had switched to
\* another channel
C29_Witness ==
    /\ Len(sends) = 2
    /\ sends[1].kind = "text" /\ sends[2].kind = "file"
    /\ \A c \in DOMAIN sends :
           /\ sends[c].at = "sent"
           /\ sends[c].open # sends[c].chat.id
           /\ chatNode[sends[c].wrote].chan = sends[c].chat.id


\* ------------------------------------------------------------------------
\* The key of a rendered entry
\* ------------------------------------------------------------------------
\* the key the viewer shares with the partner of the open channel
KeyOfOpenChannel == deriveSharedKey(PrivKey(currentUser), Directory(currentChat.partner))

\* C31: every received entry rendered in the channel with partner P is
\* decrypted with the key shared with P, whatever sender name the entry
\* carries; an entry encrypted under any other key, such as a key shared with
\* a third user, renders the failure sentinel and never a plaintext.
C31_ReceivedEntryUnderKeyOfChannel ==
    app = "Chat" =>
        \A k \in Processed \ noKeyFor :
            LET msg == EntryOf(messages, k)
            IN (msg.sender # currentUser /\ msg.chan = currentChat.id /\ HasCiphertext(msg))
                   => decryptedText[k] =
                          IF decryptMessage(KeyOfOpenChannel, msg.ct, msg.iv) = DecryptionFailure
                          THEN SentinelChat
                          ELSE decryptMessage(KeyOfOpenChannel, msg.ct, msg.iv)


\* ------------------------------------------------------------------------
\* Contacts and their channels
\* ------------------------------------------------------------------------
\* C32: every contact in the registry of user U has a partner different from
\* U and a channel id equal to channelId(U, partner); a remote channel-list
\* entry whose id does not name U as one of its two participants adds no
\* contact.
C32_ContactNamesItsChannel ==
    /\ \A i \in 1..Len(contacts) :
           /\ contacts[i].username # currentUser
           /\ contacts[i].chatId = createChatLinkId(currentUser, contacts[i].username)
    /\ \A i \in 1..Len(sbContacts) :
           /\ sbContacts[i].username # currentUser
           /\ sbContacts[i].chatId = createChatId(currentUser, sbContacts[i].username)


\* ------------------------------------------------------------------------
\* Cleanup of message records
\* ------------------------------------------------------------------------
\* the store before the call holds n records
RecordsBefore == Cardinality(DOMAIN evCall.before)
QuotaHit == evCall # NoCall /\ evCall.first = "quota"

\* C33: when saving a channel's messages hits the storage quota and more
\* than 10 message records exist, exactly max(1, floor(20% of the number of
\* records)) records are removed, every removed record has an updatedAt no
\* greater than that of every record kept, and the save is retried once;
\* with 10 or fewer message records nothing is removed and the save is
\* dropped.
C33_OldestFifthRemoved ==
    QuotaHit =>
        IF RecordsBefore > 10
        THEN /\ Cardinality(evCall.removed) =
                    (IF RecordsBefore \div 5 > 1 THEN RecordsBefore \div 5 ELSE 1)
             /\ evCall.removed \subseteq DOMAIN evCall.before
             /\ \A r \in evCall.removed, k \in DOMAIN evCall.before \ evCall.removed :
                    evCall.before[r] <= evCall.before[k]
             /\ evCall.retried
             /\ evCall.wrote <=> evCall.retry = "ok"
             /\ \A k \in DOMAIN evCall.before \ (evCall.removed \cup {evCall.key}) :
                    k \in DOMAIN evStore /\ evStore[k] = evCall.before[k]
        ELSE /\ evCall.removed = {}
             /\ ~evCall.retried
             /\ ~evCall.wrote
             /\ evStore = evCall.before

\* fifteen records, the quota hit, three records removed and the retry wrote
\* the record
C33_Witness ==
    /\ QuotaHit
    /\ RecordsBefore = 15
    /\ Cardinality(evCall.removed) = 3
    /\ evCall.wrote
    /\ evStore[evCall.key] = Now

\* C34: if saving channel C's messages fails in the end, the record
\* previously stored for C is left as it was: eviction under quota pressure
\* never removes the record of the channel being saved without a new record
\* for C being written.
C34_FailedSaveKeepsOwnRecord ==
    (evCall # NoCall /\ ~evCall.wrote /\ evCall.key \in DOMAIN evCall.before)
        => /\ evCall.key \in DOMAIN evStore
           /\ evStore[evCall.key] = evCall.before[evCall.key]


\* ------------------------------------------------------------------------
\* What an item shows
\* ------------------------------------------------------------------------
Placeholder == "Decrypting..."

\* {decryptedText || <span>Decrypting...</span>}
Shown(k) == IF decryptedText[k] = NoText THEN Placeholder ELSE decryptedText[k]

InTimeline(k) == mounted /\ k \in DOMAIN decryptedText

\* C35: every text entry in the timeline eventually renders as its plaintext
\* or as the failure sentinel; no entry stays in the "decrypting" placeholder
\* for ever, including a received entry that lacks ciphertext or nonce and an
\* entry whose plaintext is the empty string.
C35_EveryEntryLeavesThePlaceholder ==
    \A k \in 1..MaxShowKeys :
        InTimeline(k) ~> (~InTimeline(k) \/ Shown(k) # Placeholder)

\* the same of the entries that carry ciphertext and nonce of a non-empty text
CompleteEntryLeavesThePlaceholder ==
    \A k \in 1..MaxShowKeys :
        (InTimeline(k) /\ HasCiphertext(EntryOf(messages, k)) /\ EntryOf(messages, k).ct[2] # NoText)
            ~> (~InTimeline(k) \/ Shown(k) # Placeholder)


\* ------------------------------------------------------------------------
\* Session storage after logout
\* ------------------------------------------------------------------------
\* no user is logged in in browser b: before the first login or after a logout
LoggedOut(b) == appUser[b] = EmptyStr

\* C36: after logout has completed, session storage holds no username and no
\* key material, also when logout happens while the key export started by
\* login is still in flight; a page load after logout starts in the
\* logged-out state.
C36_LoggedOutSessionIsEmpty ==
    \A b \in Browsers :
        LoggedOut(b) => /\ sessionStore[b].currentUser = EmptyStr
                        /\ sessionStore[b].privKey = NoKeyMaterial
                        /\ restoreSession(sessionStore[b]) = EmptyStr


\* ------------------------------------------------------------------------
\* A send that fails
\* ------------------------------------------------------------------------
\* the step in which the text send c reaches its catch block
Fails(c) == sends[c].kind = "text" /\ sends[c].at = "key" /\ sends'[c].at = "failed"

SomeTextSendFailed == \E c \in DOMAIN sends : sends[c].kind = "text" /\ sends[c].at = "failed"

\* nothing is written and the typed text stays
FailureWritesNothing ==
    \A c \in DOMAIN sends : Fails(c) => chatNode' = chatNode /\ inputMsg' = inputMsg

\* the failed call is over: it never writes or resumes again
FailureIsFinal ==
    \A c \in DOMAIN sends : sends[c].at = "failed" => sends'[c] = sends[c]

\* the banner appears with the failure
FailureShowsError ==
    \A c \in DOMAIN sends : Fails(c) => errorMessage' # NoError /\ errShownAt' = clock

\* the banner is up for 3 seconds from the failure that showed it and is
\* gone after them
ErrorShownThreeSeconds ==
    /\ (SomeTextSendFailed /\ clock < errShownAt + 3) => errorMessage # NoError
    /\ errorMessage # NoError => clock <= errShownAt + 3

\* C37: if the shared key cannot be obtained or encryption fails during a
\* send, nothing is written to the channel, the typed text stays in the
\* input, an error message is shown and cleared again after 3 seconds, and
\* no automatic retry is made beyond the directory's own bounded retry.
C37_FailedSendShowsErrorForThreeSeconds ==
    [][FailureWritesNothing /\ FailureIsFinal /\ FailureShowsError
         /\ ErrorShownThreeSeconds']_vars

FailedSendWritesNothing == [][FailureWritesNothing /\ FailureIsFinal /\ FailureShowsError]_vars
ErrorGoneAfterThreeSeconds == errorMessage # NoError => clock <= errShownAt + 3


\* ------------------------------------------------------------------------
\* Partial deliveries
\* ------------------------------------------------------------------------
Complete(msg) == msg.sender # EmptyStr /\ msg.timestamp # 0

\* C38: a remote entry that is null or that lacks a sender or a timestamp is
\* never added to the timeline, and when the complete entry is delivered
\* later under the same key it is still added.
C38_OnlyCompleteEntriesInTimeline ==
    [][/\ \A i \in 1..Len(messages') : Complete(messages'[i])
       /\ \A k \in DOMAIN chatNode :
              HandleMessage(k) => /\ k \in KeysOf(messages')
                                  /\ EntryOf(messages', k) = chatNode[k]]_vars


\* ------------------------------------------------------------------------
\* Concurrent key derivations
\* ------------------------------------------------------------------------
\* the calls for partner p that wait for the directory, or for the import and
\* the agreement
Resolving(p) == {c \in CallsFor(p) : keyCalls[c].at = "fetch"}
Importing(p) == {c \in CallsFor(p) : keyCalls[c].at = "derive"}

\* C39: key derivation is single-flight per partner: concurrent getOrDerive
\* calls for the same partner on a cold cache share one directory resolution
\* and one key import, so at most one resolution per partner is in flight at
\* any time.
C39_OneResolutionInFlightPerPartner ==
    \A p \in Others :
        /\ Cardinality(Resolving(p)) <= 1
        /\ Cardinality(Importing(p)) <= 1

====
